---- MODULE Spec2Model ----
(***************************************************************************)
(* State-machine model of slug_sweep_deduper: the SweepDB ledger            *)
(* (service.py), the run_sweep workflow and review loop (sweep.py) and the  *)
(* helpers they call (utils.py, filters.py).                                *)
(*                                                                          *)
(* Files are records [exists, complete, db]; a ledger db is a record of     *)
(* four row sequences, a row's id being its position (AUTOINCREMENT, rows   *)
(* are never deleted).  Paths are sequences of segments.                    *)
(***************************************************************************)
EXTENDS Integers, Sequences, FiniteSets, TLC

\* ----------------------------------------------------------------- bounds
MaxRuns == 2        \* sweep invocations in one behaviour of SpecRuns
MaxNums == 2        \* numbers the operator types in one delete command
MaxTime == 600      \* seconds of session time that are modelled
MaxRows == 3        \* rows written in one behaviour of SpecLedger

\* ------------------------------------------------------ program constants
sync_interval == 600

\* granularity of the session clock
Tick == sync_interval

\* ------------------------------------------------- the environment's data
\* FILE_SERVER_MOUNT and the paths an operator can hand to `sweep`.
Mount == <<"mnt">>
LocationPaths == {<<"mnt", "A">>, <<"mnt", "B">>, <<"tmp", "A">>}

\* The catalog: the file_locations table in the order the queries return
\* its rows, and files.size.
FileLocations ==
  << [file_id |-> 1, file_server_directories |-> <<"A">>, filename |-> "x"],
     [file_id |-> 2, file_server_directories |-> <<"A">>, filename |-> "z"],
     [file_id |-> 1, file_server_directories |-> <<"A">>, filename |-> "y"],
     [file_id |-> 2, file_server_directories |-> <<"A">>, filename |-> "w"],
     [file_id |-> 2, file_server_directories |-> <<"B">>, filename |-> "z"] >>

FileSize(fid) == fid * 100

FileIds == {FileLocations[i].file_id : i \in 1..Len(FileLocations)}

\* --------------------------------------------------------------- helpers
Range(s) == {s[i] : i \in 1..Len(s)}

IsPrefix(p, s) == Len(p) <= Len(s) /\ SubSeq(s, 1, Len(p)) = p

\* ------------------------------------------------------------------ paths
\* A path string is the sequence of its segments as "/" separates them: "a//b"
\* is <<"a", "", "b">>, "a/" is <<"a", "">>, "/a" is <<"", "a">> and the empty
\* string is <<>>.  A local path is absolute and is the sequence of its
\* segments below the root.  None is the filename that was not given.
None == ""

\* PurePosixPath(s).parts: empty and "." segments are dropped, ".." is kept;
\* a leading "/" becomes the root part.
RECURSIVE DropDots(_)
DropDots(s) ==
  IF s = <<>> THEN <<>>
  ELSE IF Head(s) \in {"", "."} THEN DropDots(Tail(s))
  ELSE <<Head(s)>> \o DropDots(Tail(s))

PosixParts(s) ==
  IF Len(s) > 1 /\ Head(s) = "" THEN <<"/">> \o DropDots(Tail(s)) ELSE DropDots(s)

\* Path.joinpath(*parts): a root part discards what is before it.
JoinPath(base, parts) ==
  IF parts # <<>> /\ Head(parts) = "/" THEN Tail(parts) ELSE base \o parts

\* The symbolic links of the file system the paths are resolved on: pairs
\* <<link, target>> of absolute paths, the target free of links.
VARIABLE links

LinkTarget(path) ==
  IF \E l \in links : l[1] = path
  THEN (CHOOSE l \in links : l[1] = path)[2]
  ELSE path

\* Path.resolve(): ".." removes the segment before it (at the root,
\* nothing), "." and "" are dropped, and a prefix that is a symbolic link is
\* replaced by the link's target.
RECURSIVE ResolveOnto(_, _)
ResolveOnto(done, rest) ==
  IF rest = <<>> THEN done
  ELSE IF Head(rest) \in {"", "."} THEN ResolveOnto(done, Tail(rest))
  ELSE IF Head(rest) = ".."
       THEN ResolveOnto(IF done = <<>> THEN <<>> ELSE SubSeq(done, 1, Len(done) - 1),
                        Tail(rest))
  ELSE ResolveOnto(LinkTarget(Append(done, Head(rest))), Tail(rest))

Resolve(path) == ResolveOnto(<<>>, path)

\* str(PurePosixPath(rel_parts)): the path without segments is ".".
PosixStr(rel_parts) == IF rel_parts = <<>> THEN <<".">> ELSE rel_parts

\* utils.build_file_path: the parts of the server directory, read as a
\* POSIX path, joined onto the mount, then the filename when there is one.
build_file_path(base_mount, server_dir, filename) ==
  LET rel_parts == PosixParts(server_dir)
      full_path == JoinPath(base_mount, rel_parts)
  IN IF filename # None THEN full_path \o <<filename>> ELSE full_path

\* utils.extract_server_dirs / normalize_path_for_query: both paths are
\* resolved; the path relative to the mount in POSIX form; ValueError when
\* the path is not under the mount.
UnderMount(full_path, base_mount) == IsPrefix(Resolve(base_mount), Resolve(full_path))

extract_server_dirs(full_path, base_mount) ==
  LET full == Resolve(full_path)
      base == Resolve(base_mount)
  IN PosixStr(SubSeq(full, Len(base) + 1, Len(full)))

normalize_path_for_query(user_path, mount) == extract_server_dirs(user_path, mount)

\* ------------------------------------------------------------ the catalog
\* ArchivesAppDB.find_duplicates_in_location: the rows at the target
\* location whose file has more than one row at that location.
AtLocation(target) ==
  SelectSeq(FileLocations, LAMBDA r : r.file_server_directories = target)

LocCount(rows, fid) == Cardinality({i \in 1..Len(rows) : rows[i].file_id = fid})

find_duplicates_in_location(target) ==
  LET locs == AtLocation(target)
      withCount == [i \in 1..Len(locs) |->
                      [archives_app_file_id |-> locs[i].file_id,
                       file_server_directories |-> locs[i].file_server_directories,
                       filename |-> locs[i].filename,
                       size |-> FileSize(locs[i].file_id),
                       loc_count |-> LocCount(locs, locs[i].file_id)]]
  IN SelectSeq(withCount, LAMBDA r : r.loc_count > 1)

\* ArchivesAppDB.get_all_locations_for_file: every row of the file.
get_all_locations_for_file(fid) ==
  LET rows == SelectSeq(FileLocations, LAMBDA r : r.file_id = fid)
  IN [i \in 1..Len(rows) |->
        [file_server_directories |-> rows[i].file_server_directories,
         filename |-> rows[i].filename,
         size |-> FileSize(fid)]]

\* ------------------------------------------------------------ the filters
\* A filename is its last four characters and what is before them; the
\* catalog rows above carry names no filter looks into.  str.lower() on the
\* pieces of the filenames that are modelled.
Lower(s) ==
  CASE s = "FONT" -> "font"
    [] s = ".SHX" -> ".shx"
    [] s = "Thumb" -> "thumb"
    [] s = "S" -> "s"
    [] s = "O" -> "o"
    [] s = "Y" -> "y"
    [] s = "E" -> "e"
    [] s = "N" -> "n"
    [] OTHER -> s

lower(filename) == [stem |-> Lower(filename.stem), last4 |-> Lower(filename.last4)]

\* str.lower() on a string given as the sequence of its characters
lower_str(command) == [i \in 1..Len(command) |-> Lower(command[i])]

\* filters.no_filter: never excludes.
no_filter(file_record) == FALSE

\* filters.exclude_cad_fonts: the lowered filename ends with one of the
\* four-character extensions.
cad_extensions == {".shx", ".lin", ".pat", ".pcx"}

exclude_cad_fonts(file_record) == lower(file_record.filename).last4 \in cad_extensions

\* filters.exclude_system_files: the lowered filename is one of three names.
system_files ==
  {[stem |-> "thumb", last4 |-> "s.db"], [stem |-> ".ds_s", last4 |-> "tore"],
   [stem |-> "desktop", last4 |-> ".ini"]}

exclude_system_files(file_record) == lower(file_record.filename) \in system_files

\* filter_func(record) for a filter named in the ACTIVE_FILTERS list.
filter_func(name, record) ==
  CASE name = "no_filter" -> no_filter(record)
    [] name = "exclude_cad_fonts" -> exclude_cad_fonts(record)
    [] name = "exclude_system_files" -> exclude_system_files(record)

\* filters.ACTIVE_FILTERS: the list of the names of the active filters.  The
\* file as it stands activates no_filter alone.
VARIABLE ACTIVE_FILTERS

AsShipped == <<"no_filter">>

\* A faulty variant of ExcludedBy, for comparison: every filter is asked and
\* the answer of the last one stands.
ExcludedByLast(filters, record) ==
  filters # <<>> /\ filter_func(filters[Len(filters)], record)

\* The inner loop of apply_filters: the filters are asked in list order and
\* the loop breaks at the first that answers True.
RECURSIVE ExcludedBy(_, _)
ExcludedBy(filters, record) ==
  IF filters = <<>> THEN FALSE
  ELSE IF filter_func(Head(filters), record) THEN TRUE
  ELSE ExcludedBy(Tail(filters), record)

\* The outer loop of apply_filters: the records that are not excluded are
\* appended in input order.
RECURSIVE FilterLoop(_, _)
FilterLoop(file_records, acc) ==
  IF file_records = <<>> THEN acc
  ELSE FilterLoop(Tail(file_records),
                  IF ExcludedBy(ACTIVE_FILTERS, Head(file_records)) THEN acc
                  ELSE Append(acc, Head(file_records)))

\* sweep.apply_filters
apply_filters(file_records) == FilterLoop(file_records, <<>>)

\* sweep.group_by_file_id followed by list(grouped.keys()): the distinct
\* file ids in the order of their first record.
RECURSIVE GroupKeys(_, _)
GroupKeys(file_records, seen) ==
  IF file_records = <<>> THEN <<>>
  ELSE LET fid == Head(file_records).archives_app_file_id
       IN IF fid \in seen THEN GroupKeys(Tail(file_records), seen)
          ELSE <<fid>> \o GroupKeys(Tail(file_records), seen \cup {fid})

\* A faulty variant of group_by_file_id, for comparison: one group for each record.
GroupEachRecord(file_records) ==
  [i \in 1..Len(file_records) |-> file_records[i].archives_app_file_id]

\* A faulty variant of group_by_file_id, for comparison: the keys come out latest first.
GroupLatestFirst(file_records) ==
  LET keys == GroupKeys(file_records, {})
  IN [i \in 1..Len(keys) |-> keys[Len(keys) + 1 - i]]

group_by_file_id(file_records) == GroupKeys(file_records, {})

\* ------------------------------------------------------------- the ledger
\* SweepDB._create_new_db: the four tables, no rows.
EmptyDb == [locs |-> <<>>, files |-> <<>>, deleted |-> <<>>, errors |-> <<>>]

NoFile == [exists |-> FALSE, complete |-> FALSE, db |-> EmptyDb]
FileOf(db) == [exists |-> TRUE, complete |-> TRUE, db |-> db]
\* a file whose writer stopped part-way: not a readable store
PartialFile == [exists |-> TRUE, complete |-> FALSE, db |-> EmptyDb]

\* A faulty variant of is_file_processed, for comparison: the existence check finds nothing.
is_file_processed_never(db, archives_app_file_id) == FALSE

\* SweepDB.is_file_processed
is_file_processed(db, archives_app_file_id) ==
  \E i \in 1..Len(db.files) : db.files[i].archives_app_file_id = archives_app_file_id

\* SweepDB.record_processed_location: the row is appended; its id is returned.
record_processed_location(db, location_path, duplicates_count, completed) ==
  [db EXCEPT !.locs = Append(@, [location_path |-> location_path,
                                 duplicates_count |-> duplicates_count,
                                 completed |-> IF completed THEN 1 ELSE 0])]

\* A faulty variant of UniqueViolation, for comparison: no constraint.
UniqueViolationNever(db, archives_app_file_id) == FALSE

\* The UNIQUE constraint on processed_files.archives_app_file_id.
UniqueViolation(db, archives_app_file_id) ==
  \E i \in 1..Len(db.files) : db.files[i].archives_app_file_id = archives_app_file_id

\* SweepDB.record_processed_file: the INSERT raises IntegrityError on a
\* duplicate file id and then nothing is committed.
record_processed_file(db, archives_app_file_id, processed_location_id, decision) ==
  IF UniqueViolation(db, archives_app_file_id) THEN db
  ELSE [db EXCEPT !.files = Append(@, [archives_app_file_id |-> archives_app_file_id,
                                       processed_location_id |-> processed_location_id,
                                       decision |-> decision])]

\* SweepDB.record_deleted_file
record_deleted_file(db, processed_file_id, path, file_size) ==
  [db EXCEPT !.deleted = Append(@, [processed_file_id |-> processed_file_id,
                                    path |-> path,
                                    file_size |-> file_size])]

\* SweepDB.log_error
log_error(db, operation, message, context) ==
  [db EXCEPT !.errors = Append(@, [operation |-> operation,
                                   message |-> message,
                                   context |-> context])]

\* ------------------------------------------------------------------ state
VARIABLES
  remote,             \* storage_location/sweep_db.sqlite
  tmp,                \* storage_location/sweep_db.tmp
  staging,            \* ./sweep_db.sqlite
  conn,               \* SweepDB.conn is open
  archives_conn,      \* ArchivesAppDB.conn is open
  temp_dir,           \* TempFileManager.temp_dir is set
  pc,                 \* position of the process in run_sweep
  sync_caller,        \* which call of sync_to_storage is running
  exc,                \* the exception being propagated to the except block
  raised,             \* run_sweep has an exception pending / has raised
  location_path, target_location, location_id, file_ids, file_idx,
  valid_numbers, del_idx, processed_file_id, decision, enqueue_result,
  last_sync_time, current_time,
  now,                \* seconds since the process started
  runs,               \* sweep invocations so far
  initialised,        \* this invocation got past "Initialize services"
  start_db,           \* the ledger the constructor left in the staging copy
  local_db,           \* ./sweep_db.sqlite as sync-db found it when it was started
  presented,          \* file ids displayed in this invocation, in order
  selections,         \* confirmed delete commands of this invocation
  enqueued,           \* the enqueue_delete_edit calls of this invocation
  sync_log,           \* finished sync_to_storage calls of this invocation
  mount_arg,          \* the base_mount handed to the path functions
  path_arg,           \* the server_dir handed to build_file_path
                      \* (links, declared with the paths, is the file system's)
  records_arg,        \* the file_records handed to apply_filters
  filtered,           \* what apply_filters returned
                      \* (ACTIVE_FILTERS is declared with the filters)
  returned,           \* what the last SweepDB write operation returned
  user_input,         \* what Prompt.ask("Your choice") returns at this prompt
  cmd_type,           \* parse_user_command(user_input)[0]
  cmd_numbers,        \* parse_user_command(user_input)[1]
  answer,             \* confirm: what Prompt.ask("Confirm deletion?") returned
  other               \* a second `sweep` process, started in another directory

files == <<remote, tmp, staging>>
resources == <<conn, archives_conn, temp_dir>>
control == <<pc, sync_caller, exc, raised>>
sweep_locals == <<location_path, target_location, location_id, file_ids, file_idx>>
delete_locals == <<valid_numbers, del_idx, processed_file_id, decision, enqueue_result>>
clock == <<last_sync_time, current_time, now>>
history == <<runs, initialised, start_db, local_db, presented, selections, enqueued, sync_log>>

path_args == <<mount_arg, path_arg, links>>

filter_args == <<ACTIVE_FILTERS, records_arg, filtered>>

prompt_args == <<user_input, cmd_type, cmd_numbers, answer>>

fn_args == <<path_args, filter_args, returned, prompt_args, other>>

vars == <<files, resources, control, sweep_locals,
          delete_locals, clock, history, fn_args>>

\* The second process before it is started: its own ./sweep_db.sqlite
\* (staging), its position in run_sweep (pc), the locals of its run_sweep,
\* the file ids it displayed and what its sync put at the remote path.
NotStarted ==
  [pc |-> "idle", staging |-> NoFile, location_id |-> 0, file_ids |-> <<>>,
   file_idx |-> 0, presented |-> <<>>, raised |-> FALSE, synced |-> NoFile]

\* What a call hands back: the value of its return statement, or None when
\* it has none or raises.
Returns(value) == <<value>>
ReturnsNone == <<>>

\* The staging copy is a store sqlite can read and write.
LedgerUsable == staging.exists /\ staging.complete

ProcessedIds(db) == {db.files[i].archives_app_file_id : i \in 1..Len(db.files)}

\* A ledger an earlier sweep of mnt/B left behind, made when the catalog
\* still listed two copies of file 2 under B: file 2 was kept.
PriorDb ==
  record_processed_file(
    record_processed_location(EmptyDb, <<"mnt", "B">>, 1, FALSE), 2, 1, "kept_all")

\* What can be at the remote path when a sweep starts: nothing (the
\* ledger was never created), the ledger of an earlier sweep, or the file
\* an interrupted fallback copy of sync_to_storage left.
InitialRemotes == {NoFile, FileOf(PriorDb), PartialFile}

\* The sweep is followed on a file system without symbolic links under the
\* mount; SpecPaths is where the links vary.
Init ==
  /\ remote \in InitialRemotes /\ tmp = NoFile /\ staging = NoFile
  /\ conn = FALSE /\ archives_conn = FALSE /\ temp_dir = FALSE
  /\ pc = "idle" /\ sync_caller = "none" /\ exc = "none" /\ raised = FALSE
  /\ location_path = <<>> /\ target_location = <<>> /\ location_id = 0
  /\ file_ids = <<>> /\ file_idx = 0
  /\ valid_numbers = <<>> /\ del_idx = 0 /\ processed_file_id = 0
  /\ decision = "none" /\ enqueue_result = FALSE
  /\ last_sync_time = 0 /\ current_time = 0 /\ now = 0
  /\ runs = 0 /\ initialised = FALSE /\ start_db = EmptyDb /\ local_db = NoFile
  /\ mount_arg = Mount /\ path_arg = <<>> /\ links = {}
  /\ ACTIVE_FILTERS = AsShipped /\ records_arg = <<>> /\ filtered = <<>>
  /\ returned = ReturnsNone
  /\ user_input = <<>> /\ cmd_type = "none" /\ cmd_numbers = <<>>
  /\ answer = <<>>
  /\ other = NotStarted
  /\ presented = <<>> /\ selections = <<>> /\ enqueued = <<>> /\ sync_log = <<>>

\* ------------------------------------------------------------ run_sweep
\* What a fresh process starts from: the locals of run_sweep.
FreshLocals ==
  /\ target_location' = <<>> /\ location_id' = 0
  /\ file_ids' = <<>> /\ file_idx' = 0
  /\ valid_numbers' = <<>> /\ del_idx' = 0 /\ processed_file_id' = 0
  /\ decision' = "none" /\ enqueue_result' = FALSE
  /\ last_sync_time' = 0 /\ current_time' = 0 /\ now' = 0
  /\ temp_dir' = FALSE /\ sync_caller' = "none" /\ exc' = "none"
  /\ presented' = <<>> /\ selections' = <<>> /\ sync_log' = <<>>
  /\ enqueued' = <<>>
  /\ UNCHANGED fn_args

\* SweepDB.__init__: the staging copy the constructor leaves when it
\* succeeds: a copy of the remote file when there is one, else what
\* _create_new_db's CREATE TABLE IF NOT EXISTS leaves at the staging path.
StagingAfterInit ==
  IF remote.exists THEN remote
  ELSE IF staging.exists THEN staging ELSE FileOf(EmptyDb)

\* sqlite can create the tables unless a broken file sits at the staging path.
ConstructorSucceeds == ~(~remote.exists /\ staging.exists /\ ~staging.complete)

\* `sweep LOCATION`, "Initialize services": SweepDB(...), ArchivesAppDB
\* connect, ArchivesApp, TempFileManager.
StartRun(path) ==
  /\ pc = "idle"
  /\ ConstructorSucceeds
  /\ runs' = runs + 1
  /\ location_path' = path
  /\ staging' = StagingAfterInit
  /\ start_db' = StagingAfterInit.db /\ local_db' = NoFile
  /\ conn' = TRUE /\ archives_conn' = TRUE
  /\ initialised' = TRUE /\ raised' = FALSE
  /\ pc' = "try"
  /\ FreshLocals
  /\ UNCHANGED <<remote, tmp>>

\* load_env_config finds a required variable missing: the names are
\* printed and the process exits before run_sweep is called.
StartRunConfigMissing ==
  /\ pc = "idle"
  /\ runs' = runs + 1
  /\ local_db' = NoFile
  /\ pc' = "done" /\ raised' = TRUE
  /\ UNCHANGED <<files, resources, sync_caller, exc, sweep_locals, delete_locals,
                 clock, initialised, start_db, presented, selections, enqueued,
                 sync_log>>
  /\ UNCHANGED fn_args

\* The constructor raises: the copy from storage fails, or sqlite cannot
\* create the tables in a broken file left at the staging path.
StartRunLedgerFails(path) ==
  /\ pc = "idle"
  /\ runs' = runs + 1
  /\ location_path' = path
  /\ IF remote.exists THEN staging' \in {staging, PartialFile}
     ELSE staging.exists /\ ~staging.complete /\ staging' = staging
  /\ start_db' = EmptyDb /\ local_db' = NoFile
  /\ conn' = FALSE /\ archives_conn' = FALSE
  /\ initialised' = FALSE /\ raised' = TRUE
  /\ pc' = "done"
  /\ FreshLocals
  /\ UNCHANGED <<remote, tmp>>

\* archives_db.connect() raises after the ledger was opened.
StartRunConnectFails(path) ==
  /\ pc = "idle"
  /\ ConstructorSucceeds
  /\ runs' = runs + 1
  /\ location_path' = path
  /\ staging' = StagingAfterInit
  /\ start_db' = StagingAfterInit.db /\ local_db' = NoFile
  /\ conn' = TRUE /\ archives_conn' = FALSE
  /\ initialised' = FALSE /\ raised' = TRUE
  /\ pc' = "done"
  /\ FreshLocals
  /\ UNCHANGED <<remote, tmp>>

\* The process ends: `sweep` returns or exits with the error; the
\* connections and the locals of run_sweep go with it.
Exit ==
  /\ pc = "done"
  /\ pc' = "idle"
  /\ conn' = FALSE /\ archives_conn' = FALSE
  /\ initialised' = FALSE /\ raised' = FALSE
  /\ location_path' = <<>> /\ start_db' = EmptyDb /\ local_db' = NoFile
  /\ FreshLocals
  /\ UNCHANGED <<files, runs>>

\* The records that reach grouping: discovery, filters, then the records
\* whose file id has no processed_files row.
unprocessed_records(db, target) ==
  SelectSeq(apply_filters(find_duplicates_in_location(target)),
            LAMBDA rec : ~is_file_processed(db, rec.archives_app_file_id))

\* Raising into the except block of run_sweep.
Raise(e) == pc' = "except" /\ exc' = e

\* Path translation raises ValueError: the location is not under the mount.
TranslateRaises ==
  /\ pc = "try"
  /\ ~UnderMount(location_path, Mount)
  /\ Raise("ValueError")
  /\ UNCHANGED <<files, resources, sync_caller, raised,
                 sweep_locals, delete_locals, clock, history>>
  /\ UNCHANGED fn_args

\* find_duplicates_in_location raises (the catalog query fails).
DiscoveryRaises ==
  /\ pc = "try"
  /\ UnderMount(location_path, Mount)
  /\ Raise("catalog")
  /\ target_location' = normalize_path_for_query(location_path, Mount)
  /\ UNCHANGED <<files, resources, sync_caller, raised,
                 location_path, location_id, file_ids, file_idx,
                 delete_locals, clock, history>>
  /\ UNCHANGED fn_args

\* Lines 184-230: translate, discover, filter, drop the processed, group,
\* record the processed_location, start the checkpoint timer.
Discover ==
  /\ pc = "try"
  /\ UnderMount(location_path, Mount)
  /\ LET target == normalize_path_for_query(location_path, Mount)
         duplicate_records == find_duplicates_in_location(target)
         filtered_records == apply_filters(duplicate_records)
         grouped == group_by_file_id(unprocessed_records(staging.db, target))
     IN /\ target_location' = target
        /\ IF duplicate_records = <<>>
           THEN /\ pc' = "finally" /\ exc' = exc
                /\ UNCHANGED <<staging, location_id, file_ids, file_idx, last_sync_time>>
           ELSE IF filtered_records # <<>> /\ ~LedgerUsable
           THEN /\ Raise("sqlite")
                /\ UNCHANGED <<staging, location_id, file_ids, file_idx, last_sync_time>>
           ELSE IF grouped = <<>>
           THEN /\ pc' = "finally" /\ exc' = exc
                /\ UNCHANGED <<staging, location_id, file_ids, file_idx, last_sync_time>>
           ELSE /\ staging' = FileOf(record_processed_location(
                                       staging.db, location_path, Len(grouped), FALSE))
                /\ location_id' = Len(staging.db.locs) + 1
                /\ last_sync_time' = now
                /\ file_ids' = grouped
                /\ file_idx' = 1
                /\ pc' = "loop" /\ exc' = exc
  /\ UNCHANGED <<remote, tmp, resources, sync_caller, raised,
                 location_path, delete_locals, current_time, now, history>>
  /\ UNCHANGED fn_args

\* The file under review and its complete location list.
file_id == file_ids[file_idx]
all_locations == get_all_locations_for_file(file_id)

\* Lines 234-241: the next file id; fetch and display its locations.
NextFile ==
  /\ pc = "loop"
  /\ file_idx <= Len(file_ids)
  /\ presented' = Append(presented, file_id)
  /\ pc' = "prompt"
  /\ UNCHANGED <<files, resources, sync_caller, exc, raised,
                 sweep_locals, delete_locals, clock,
                 runs, initialised, start_db, local_db, selections, enqueued, sync_log>>
  /\ UNCHANGED fn_args

\* get_all_locations_for_file raises, or returns no row and
\* display_file_locations raises IndexError.
FetchRaises ==
  /\ pc = "loop"
  /\ file_idx <= Len(file_ids)
  /\ \E e \in {"catalog", "IndexError"} : Raise(e)
  /\ UNCHANGED <<files, resources, sync_caller, raised,
                 sweep_locals, delete_locals, clock, history>>
  /\ UNCHANGED fn_args

\* A faulty variant of LoopEnds, for comparison: the end of the loop marks the location completed.
LoopEndsMarksCompleted ==
  /\ pc = "loop"
  /\ file_idx > Len(file_ids)
  /\ pc' = "finally"
  /\ staging' = FileOf([staging.db EXCEPT !.locs[location_id].completed = 1])
  /\ UNCHANGED <<remote, tmp, resources, sync_caller, exc, raised,
                 sweep_locals, delete_locals, clock, history>>
  /\ UNCHANGED fn_args

\* Line 372: the for loop is exhausted.
LoopEnds ==
  /\ pc = "loop"
  /\ file_idx > Len(file_ids)
  /\ pc' = "finally"
  /\ UNCHANGED <<files, resources, sync_caller, exc, raised,
                 sweep_locals, delete_locals, clock, history>>
  /\ UNCHANGED fn_args

\* ------------------------------------------------------ the review prompt
\* What the operator can type after the numbers of a delete command, and
\* the numbers themselves: any list of 1..MaxNums numbers, in or out of range.
Numbers == 0..(Len(all_locations) + 1)
NumberLists == UNION {[1..n -> Numbers] : n \in 1..MaxNums}
ConfirmAnswers == {<<"y", "e", "s">>, <<"Y">>, <<"n", "o">>}

\* A faulty variant of confirms, for comparison: whatever begins with y is a yes.
confirms_by_first_letter(confirm) ==
  confirm # <<>> /\ Head(lower_str(confirm)) = "y"

\* Line 316: confirm.lower() in ['yes', 'y']
confirms(confirm) == lower_str(confirm) \in {<<"y", "e", "s">>, <<"y">>}

\* Line 299: the numbers that name a location, in the order typed.
ValidNumbers(numbers, n_locations) ==
  SelectSeq(numbers, LAMBDA n : 1 <= n /\ n <= n_locations)

\* Lines 321-324
Decision(valid, n_locations) ==
  IF Len(valid) = n_locations THEN "deleted_all" ELSE "deleted_some"

\* Lines 335-339: the path of location number num of file fid.
PathOf(fid, num) ==
  LET loc == get_all_locations_for_file(fid)[num]
  IN build_file_path(Mount, loc.file_server_directories, loc.filename)

\* The path of location number num of the file under review.
LocationPath(num) == PathOf(file_id, num)

\* The operator thinks: the clock advances while Prompt.ask blocks.
Wait ==
  /\ pc = "prompt"
  /\ now + Tick <= MaxTime
  /\ now' = now + Tick
  /\ UNCHANGED <<files, resources, control, sweep_locals,
                 delete_locals, last_sync_time, current_time, history>>
  /\ UNCHANGED fn_args

\* Lines 255-257: an unparseable command.
CmdInvalid ==
  /\ pc = "prompt"
  /\ UNCHANGED vars

\* A faulty variant of CmdSkip, for comparison: the skipped file gets a processed_files row.
CmdSkipMarks ==
  /\ pc = "prompt"
  /\ pc' = "checkpoint"
  /\ staging' = FileOf(record_processed_file(staging.db, file_id, location_id, "skipped"))
  /\ UNCHANGED <<remote, tmp, resources, sync_caller, exc, raised,
                 sweep_locals, delete_locals, clock, history>>
  /\ UNCHANGED fn_args

\* Lines 265-267
CmdSkip ==
  /\ pc = "prompt"
  /\ pc' = "checkpoint"
  /\ UNCHANGED <<files, resources, sync_caller, exc, raised,
                 sweep_locals, delete_locals, clock, history>>
  /\ UNCHANGED fn_args

\* Lines 269-277
CmdKeep ==
  /\ pc = "prompt"
  /\ IF UniqueViolation(staging.db, file_id)
     THEN Raise("IntegrityError") /\ staging' = staging
     ELSE /\ staging' = FileOf(record_processed_file(staging.db, file_id,
                                                       location_id, "kept_all"))
          /\ pc' = "checkpoint" /\ exc' = exc
  /\ UNCHANGED <<remote, tmp, resources, sync_caller, raised,
                 sweep_locals, delete_locals, clock, history>>
  /\ UNCHANGED fn_args

\* A faulty variant of CmdOpen, for comparison: opening a location ends the review of the file.
CmdOpenAdvances(num, opened) ==
  /\ pc = "prompt"
  /\ pc' = IF 1 <= num /\ num <= Len(all_locations) THEN "checkpoint" ELSE "prompt"
  /\ temp_dir' = IF 1 <= num /\ num <= Len(all_locations) /\ opened THEN TRUE ELSE temp_dir
  /\ UNCHANGED <<files, conn, archives_conn, sync_caller, exc, raised,
                 sweep_locals, delete_locals, clock, history>>
  /\ UNCHANGED fn_args

\* Lines 279-295: an in-range number copies the file to the scratch
\* directory (created on first use) and starts the viewer; copy_and_open
\* catches every exception and returns False, before or after the scratch
\* directory was made.  Whether that succeeds or fails, and for an
\* out-of-range number, the prompt repeats.
CmdOpen(num, opened) ==
  /\ pc = "prompt"
  /\ temp_dir' = IF 1 <= num /\ num <= Len(all_locations) /\ opened THEN TRUE ELSE temp_dir
  /\ UNCHANGED <<files, conn, archives_conn, control,
                 sweep_locals, delete_locals, clock, history>>
  /\ UNCHANGED fn_args

\* Lines 297-318: a delete command that names no location, or that the
\* operator does not confirm.
CmdDeleteNoEffect(numbers, confirm) ==
  /\ pc = "prompt"
  /\ ~(ValidNumbers(numbers, Len(all_locations)) # <<>> /\ confirms(confirm))
  /\ UNCHANGED vars

\* Lines 297-330: a confirmed delete command: the decision is recorded.
CmdDelete(numbers, confirm) ==
  /\ pc = "prompt"
  /\ ValidNumbers(numbers, Len(all_locations)) # <<>>
  /\ confirms(confirm)
  /\ LET valid == ValidNumbers(numbers, Len(all_locations))
         d == Decision(valid, Len(all_locations))
     IN IF UniqueViolation(staging.db, file_id)
        THEN /\ Raise("IntegrityError")
             /\ UNCHANGED <<staging, delete_locals, selections>>
        ELSE /\ staging' = FileOf(record_processed_file(staging.db, file_id,
                                                          location_id, d))
             /\ processed_file_id' = Len(staging.db.files) + 1
             /\ decision' = d
             /\ valid_numbers' = valid
             /\ del_idx' = 1
             /\ enqueue_result' = enqueue_result
             /\ selections' = Append(selections,
                                     [file_id |-> file_id,
                                      valid_numbers |-> valid,
                                      processed_file_id |-> Len(staging.db.files) + 1])
             /\ pc' = "enqueue" /\ exc' = exc
  /\ UNCHANGED <<remote, tmp, resources, sync_caller, raised,
                 sweep_locals, clock, runs, initialised, start_db, local_db,
                 presented, enqueued, sync_log>>
  /\ UNCHANGED fn_args

\* Lines 333-342: ArchivesApp.enqueue_delete_edit for the next selected
\* number: (True, None), or (False, str(e)) on an HTTP error, a timeout
\* or any other exception.
Enqueue(success) ==
  /\ pc = "enqueue"
  /\ enqueue_result' = success
  /\ enqueued' = Append(enqueued, [file_id |-> file_id,
                                   path |-> LocationPath(valid_numbers[del_idx]),
                                   success |-> success])
  /\ pc' = "record"
  /\ UNCHANGED <<files, resources, sync_caller, exc, raised,
                 sweep_locals, valid_numbers, del_idx, processed_file_id, decision,
                 clock, runs, initialised, start_db, local_db, presented,
                 selections, sync_log>>
  /\ UNCHANGED fn_args

\* A faulty variant of OutcomeRow, for comparison: a deleted_files row whatever the call returned.
OutcomeRowAlwaysDeleted(db, success, pfid, path, size) ==
  record_deleted_file(db, pfid, path, size)

\* A faulty variant of OutcomeRow, for comparison: a failed call is not logged.
OutcomeRowDropsError(db, success, pfid, path, size) ==
  IF success THEN record_deleted_file(db, pfid, path, size) ELSE db

\* A faulty variant of OutcomeRow, for comparison: the deleted_files row names the row after the file's.
OutcomeRowDangling(db, success, pfid, path, size) ==
  IF success THEN record_deleted_file(db, pfid + 1, path, size)
  ELSE log_error(db, "delete", "enqueue failed", path)

\* Lines 344-359: the ledger row for the outcome of the call.
OutcomeRow(db, success, pfid, path, size) ==
  IF success THEN record_deleted_file(db, pfid, path, size)
  ELSE log_error(db, "delete", "enqueue failed", path)

\* Lines 344-362: record the outcome, then the next selected number, or
\* the end of the file's review.
RecordOutcome ==
  /\ pc = "record"
  /\ staging' = FileOf(OutcomeRow(staging.db, enqueue_result, processed_file_id,
                                  LocationPath(valid_numbers[del_idx]),
                                  all_locations[valid_numbers[del_idx]].size))
  /\ del_idx' = del_idx + 1
  /\ pc' = IF del_idx < Len(valid_numbers) THEN "enqueue" ELSE "checkpoint"
  /\ UNCHANGED <<remote, tmp, resources, sync_caller, exc, raised,
                 sweep_locals, valid_numbers, processed_file_id, decision,
                 enqueue_result, clock, history>>
  /\ UNCHANGED fn_args

\* A faulty variant of sync_due, for comparison: a sync only when more than the interval has passed.
sync_due_late(current, last) == current - last > sync_interval

\* Line 366: current_time - last_sync_time >= sync_interval
sync_due(current, last) == current - last >= sync_interval

\* A faulty variant of Checkpoint, for comparison: the loop passes over the file after the reviewed one.
CheckpointSkipsNext ==
  /\ pc = "checkpoint"
  /\ current_time' = now
  /\ pc' = "loop" /\ sync_caller' = sync_caller
  /\ file_idx' = file_idx + 2
  /\ valid_numbers' = <<>> /\ del_idx' = 0 /\ processed_file_id' = 0
  /\ decision' = "none" /\ enqueue_result' = FALSE
  /\ UNCHANGED <<files, resources, exc, raised,
                 location_path, target_location, location_id, file_ids,
                 last_sync_time, now, history>>
  /\ UNCHANGED fn_args

\* Lines 364-369: the periodic sync check that follows every review.  The
\* locals of the finished review are dead from here on and are cleared.
Checkpoint ==
  /\ pc = "checkpoint"
  /\ current_time' = now
  /\ IF sync_due(now, last_sync_time)
     THEN /\ pc' = "sync_copy" /\ sync_caller' = "periodic"
          /\ file_idx' = file_idx
     ELSE /\ pc' = "loop" /\ sync_caller' = sync_caller
          /\ file_idx' = file_idx + 1
  /\ valid_numbers' = <<>> /\ del_idx' = 0 /\ processed_file_id' = 0
  /\ decision' = "none" /\ enqueue_result' = FALSE
  /\ UNCHANGED <<files, resources, exc, raised,
                 location_path, target_location, location_id, file_ids,
                 last_sync_time, now, history>>
  /\ UNCHANGED fn_args

\* A faulty variant of CmdQuit, for comparison: quit marks the file it was entered at as kept.
CmdQuitDecides ==
  /\ pc = "prompt"
  /\ pc' = "sync_copy" /\ sync_caller' = "quit"
  /\ staging' = FileOf(record_processed_file(staging.db, file_id, location_id, "kept_all"))
  /\ UNCHANGED <<remote, tmp, resources, exc, raised,
                 sweep_locals, delete_locals, clock, history>>
  /\ UNCHANGED fn_args

\* Lines 259-261: quit calls sync_to_storage.
CmdQuit ==
  /\ pc = "prompt"
  /\ pc' = "sync_copy" /\ sync_caller' = "quit"
  /\ UNCHANGED <<files, resources, exc, raised,
                 sweep_locals, delete_locals, clock, history>>
  /\ UNCHANGED fn_args

\* Lines 374-383: the except block logs the exception; when the staging
\* store is unusable log_error raises and the exception leaves the block.
Except ==
  /\ pc = "except"
  /\ IF LedgerUsable
     THEN /\ staging' = FileOf(log_error(staging.db, "sweep", exc, location_path))
          /\ raised' = raised
     ELSE /\ staging' = staging
          /\ raised' = TRUE
  /\ pc' = "finally" /\ exc' = "none"
  /\ UNCHANGED <<remote, tmp, resources, sync_caller,
                 sweep_locals, delete_locals, clock, history>>
  /\ UNCHANGED fn_args

\* Lines 385-388: the finally block calls sync_to_storage.
Finally ==
  /\ pc = "finally"
  /\ pc' = "sync_copy" /\ sync_caller' = "final"
  /\ UNCHANGED <<files, resources, exc, raised,
                 sweep_locals, delete_locals, clock, history>>
  /\ UNCHANGED fn_args

\* ------------------------------------------------------- sync_to_storage
\* A faulty variant of QuitReturnsTo, for comparison: the return at quit leaves run_sweep at once.
QuitReturnsToCaller == "done"

\* Where `return` at line 263 goes: the finally clause of the try.
QuitReturnsTo == "finally"

\* sync_to_storage returns to its caller: after quit (lines 262-263) the
\* scratch area is cleaned and run_sweep returns through finally; after a
\* checkpoint (line 369) the timer takes the time of the check and the loop
\* goes on; in finally (lines 389-392) the connections are closed, the
\* scratch area is cleaned and run_sweep is left; sync-db and init-db
\* close the ledger and end.
SyncReturns ==
  /\ sync_log' = Append(sync_log, [caller |-> sync_caller, ok |-> TRUE])
  /\ sync_caller' = "none"
  /\ exc' = exc /\ raised' = raised
  /\ IF sync_caller = "quit"
     THEN /\ pc' = QuitReturnsTo /\ temp_dir' = FALSE
          /\ UNCHANGED <<conn, archives_conn, last_sync_time, file_idx>>
     ELSE IF sync_caller = "periodic"
     THEN /\ pc' = "loop" /\ last_sync_time' = current_time
          /\ file_idx' = file_idx + 1
          /\ UNCHANGED <<conn, archives_conn, temp_dir>>
     ELSE /\ pc' = "done"
          /\ conn' = FALSE /\ archives_conn' = FALSE /\ temp_dir' = FALSE
          /\ UNCHANGED <<last_sync_time, file_idx>>

\* sync_to_storage raises: at quit and at a checkpoint the call is inside
\* the try and the exception reaches the except block; in finally it
\* leaves run_sweep, and lines 389-391 are not executed; in sync-db and
\* init-db the command reports the error and exits.
SyncRaises ==
  /\ sync_log' = Append(sync_log, [caller |-> sync_caller, ok |-> FALSE])
  /\ sync_caller' = "none"
  /\ IF sync_caller \in {"quit", "periodic"}
     THEN pc' = "except" /\ raised' = raised /\ exc' = "OSError"
     ELSE pc' = "done" /\ raised' = TRUE /\ exc' = exc
  /\ UNCHANGED <<resources, last_sync_time, file_idx>>

SyncFrame ==
  /\ UNCHANGED <<staging, location_path, target_location,
     location_id, file_ids, delete_locals, current_time, now,
     runs, initialised, start_db, local_db, presented, selections, enqueued>>
  /\ UNCHANGED fn_args

\* Lines 131-136: commit, then copy the staging file to sweep_db.tmp.
SyncCopy ==
  /\ pc = "sync_copy"
  /\ tmp' = staging
  /\ pc' = "sync_move"
  /\ UNCHANGED <<remote, resources, sync_caller, exc, raised, last_sync_time,
                 file_idx, sync_log>>
  /\ SyncFrame

\* The copy raises, before or after it started to write sweep_db.tmp.
SyncCopyRaises ==
  /\ pc = "sync_copy"
  /\ tmp' \in {tmp, PartialFile}
  /\ remote' = remote
  /\ SyncRaises
  /\ SyncFrame

\* Line 137, shutil.move: os.rename puts sweep_db.tmp in the place of
\* sweep_db.sqlite in one step.
SyncMoveRename ==
  /\ pc = "sync_move"
  /\ remote' = tmp
  /\ tmp' = NoFile
  /\ SyncReturns
  /\ SyncFrame

\* Line 137, shutil.move when os.rename raises OSError (on Windows it
\* always raises FileExistsError for an existing destination): move falls
\* back to copy2(tmp, canonical), which opens the canonical file for writing.
SyncMoveFallback ==
  /\ pc = "sync_move"
  /\ remote.exists
  /\ remote' = PartialFile
  /\ pc' = "sync_move_copy"
  /\ UNCHANGED <<tmp, resources, sync_caller, exc, raised, last_sync_time,
                 file_idx, sync_log>>
  /\ SyncFrame

\* shutil.move raises without having touched the canonical file.
SyncMoveRaises ==
  /\ pc = "sync_move"
  /\ UNCHANGED <<remote, tmp>>
  /\ SyncRaises
  /\ SyncFrame

\* The fallback copy completes and sweep_db.tmp is unlinked.
SyncMoveCopy ==
  /\ pc = "sync_move_copy"
  /\ remote' = tmp
  /\ tmp' = NoFile
  /\ SyncReturns
  /\ SyncFrame

\* The fallback copy raises part-way.
SyncMoveCopyRaises ==
  /\ pc = "sync_move_copy"
  /\ UNCHANGED <<remote, tmp>>
  /\ SyncRaises
  /\ SyncFrame

\* ---------------------------------------------------- sync-db and init-db
\* What every step of sync-db and init-db leaves alone.
CommandFrame ==
  /\ UNCHANGED <<tmp, archives_conn, temp_dir, exc, sweep_locals, delete_locals,
     clock, initialised, presented, selections, enqueued, sync_log>>
  /\ UNCHANGED fn_args

\* cli.sync_db without a local sweep_db.sqlite: an error message, exit 1.
SyncDbNoLocal ==
  /\ pc = "idle"
  /\ ~staging.exists
  /\ runs' = runs + 1
  /\ local_db' = staging
  /\ pc' = "done" /\ raised' = TRUE
  /\ UNCHANGED <<remote, staging, conn, sync_caller, start_db>>
  /\ CommandFrame

\* cli.sync_db: SweepDB(...) is constructed, then sync_to_storage is called.
SyncDb ==
  /\ pc = "idle"
  /\ staging.exists
  /\ ConstructorSucceeds
  /\ runs' = runs + 1
  /\ local_db' = staging
  /\ staging' = StagingAfterInit
  /\ start_db' = StagingAfterInit.db
  /\ conn' = TRUE
  /\ pc' = "sync_copy" /\ sync_caller' = "sync-db" /\ raised' = FALSE
  /\ UNCHANGED remote
  /\ CommandFrame

\* cli.init_db with the answer to "overwrite?": an existing remote ledger
\* is kept when the operator declines, else unlinked; then SweepDB(...) is
\* constructed with no remote file and sync_to_storage is called.
InitDb(confirm) ==
  /\ pc = "idle"
  /\ runs' = runs + 1
  /\ local_db' = NoFile
  /\ IF remote.exists /\ ~confirm
     THEN /\ pc' = "done" /\ raised' = FALSE
          /\ UNCHANGED <<remote, staging, conn, sync_caller, start_db>>
     ELSE /\ remote' = NoFile
          /\ IF staging.exists /\ ~staging.complete
             THEN /\ pc' = "done" /\ raised' = TRUE
                  /\ UNCHANGED <<staging, conn, sync_caller, start_db>>
             ELSE /\ staging' = (IF staging.exists THEN staging ELSE FileOf(EmptyDb))
                  /\ start_db' = staging'.db
                  /\ conn' = TRUE
                  /\ pc' = "sync_copy" /\ sync_caller' = "init-db" /\ raised' = FALSE
  /\ CommandFrame

\* ------------------------------------------------------ the specification
Next ==
  \/ runs = 0 /\ \E path \in LocationPaths : StartRun(path)
  \/ runs = 0 /\ StartRunConfigMissing
  \/ runs = 0 /\ \E path \in LocationPaths : StartRunLedgerFails(path)
  \/ runs = 0 /\ \E path \in LocationPaths : StartRunConnectFails(path)
  \/ Exit
  \/ TranslateRaises
  \/ DiscoveryRaises
  \/ Discover
  \/ NextFile
  \/ FetchRaises
  \/ LoopEnds
  \/ Wait
  \/ CmdInvalid
  \/ CmdSkip
  \/ CmdKeep
  \/ pc = "prompt" /\ \E num \in Numbers, opened \in BOOLEAN : CmdOpen(num, opened)
  \/ pc = "prompt" /\ \E numbers \in NumberLists, confirm \in ConfirmAnswers :
                        CmdDeleteNoEffect(numbers, confirm)
  \/ pc = "prompt" /\ \E numbers \in NumberLists, confirm \in ConfirmAnswers :
                        CmdDelete(numbers, confirm)
  \/ CmdQuit
  \/ \E success \in BOOLEAN : Enqueue(success)
  \/ RecordOutcome
  \/ Checkpoint
  \/ Except
  \/ Finally
  \/ SyncCopy
  \/ SyncCopyRaises
  \/ SyncMoveRename
  \/ SyncMoveFallback
  \/ SyncMoveRaises
  \/ SyncMoveCopy
  \/ SyncMoveCopyRaises

Spec == Init /\ [][Next]_vars

\* Up to MaxRuns invocations of sweep, sync-db and init-db, one after the
\* other, on the same remote ledger and the same staging directory, with
\* an operator who decides every file (keep, skip, delete or quit), a
\* deletion service that accepts every request and syncs that may fail.
NextRuns ==
  \/ runs < MaxRuns /\ \E path \in LocationPaths : StartRun(path)
  \/ runs < MaxRuns /\ SyncDbNoLocal
  \/ runs < MaxRuns /\ SyncDb
  \/ runs < MaxRuns /\ \E confirm \in BOOLEAN : InitDb(confirm)
  \/ Exit
  \/ TranslateRaises
  \/ Discover
  \/ NextFile
  \/ LoopEnds
  \/ CmdSkip
  \/ CmdKeep
  \/ pc = "prompt" /\ \E numbers \in NumberLists : CmdDelete(numbers, <<"y", "e", "s">>)
  \/ CmdQuit
  \/ Enqueue(TRUE)
  \/ RecordOutcome
  \/ Checkpoint
  \/ Except
  \/ Finally
  \/ SyncCopy
  \/ SyncCopyRaises
  \/ SyncMoveRename

SpecRuns == Init /\ [][NextRuns]_vars

\* ------------------------------------------- the ledger's write operations
\* The four write operations of SweepDB applied to an open ledger in any
\* order and with any arguments, as any caller of the class may.
TotalRows(db) == Len(db.locs) + Len(db.files) + Len(db.deleted) + Len(db.errors)

InitLedger ==
  /\ remote = NoFile /\ tmp = NoFile
  /\ staging \in {FileOf(EmptyDb), FileOf(PriorDb)}
  /\ conn = TRUE /\ archives_conn = FALSE /\ temp_dir = FALSE
  /\ pc = "api" /\ sync_caller = "none" /\ exc = "none" /\ raised = FALSE
  /\ location_path = <<>> /\ target_location = <<>> /\ location_id = 0
  /\ file_ids = <<>> /\ file_idx = 0
  /\ valid_numbers = <<>> /\ del_idx = 0 /\ processed_file_id = 0
  /\ decision = "none" /\ enqueue_result = FALSE
  /\ last_sync_time = 0 /\ current_time = 0 /\ now = 0
  /\ runs = 0 /\ initialised = TRUE /\ start_db = staging.db /\ local_db = NoFile
  /\ mount_arg = Mount /\ path_arg = <<>> /\ links = {}
  /\ ACTIVE_FILTERS = AsShipped /\ records_arg = <<>> /\ filtered = <<>>
  /\ returned = ReturnsNone
  /\ user_input = <<>> /\ cmd_type = "none" /\ cmd_numbers = <<>>
  /\ answer = <<>>
  /\ other = NotStarted
  /\ presented = <<>> /\ selections = <<>> /\ enqueued = <<>> /\ sync_log = <<>>

ApiFrame ==
  /\ UNCHANGED <<remote, tmp, resources, pc, sync_caller, raised, sweep_locals,
     delete_locals, clock, history>>
  /\ UNCHANGED <<path_args, filter_args, prompt_args, other>>

\* cursor.lastrowid after an INSERT into a table whose rows are never
\* deleted: the id of the row that was appended.
lastrowid(rows) == Len(rows)

ApiRecordLocation(path, count) ==
  /\ pc = "api" /\ TotalRows(staging.db) < MaxRows
  /\ staging' = FileOf(record_processed_location(staging.db, path, count, FALSE))
  /\ exc' = "none"
  /\ returned' = Returns(lastrowid(staging'.db.locs))
  /\ ApiFrame

\* record_processed_file raises IntegrityError on a duplicate file id.
\* An operation that raises, and one without a return statement, hands
\* back None.
ApiRecordFile(fid, plid, d) ==
  /\ pc = "api" /\ TotalRows(staging.db) < MaxRows
  /\ staging' = FileOf(record_processed_file(staging.db, fid, plid, d))
  /\ exc' = IF UniqueViolation(staging.db, fid) THEN "IntegrityError" ELSE "none"
  /\ returned' = IF UniqueViolation(staging.db, fid) THEN ReturnsNone
                 ELSE Returns(lastrowid(staging'.db.files))
  /\ ApiFrame

ApiRecordDeleted(pfid, fid, num) ==
  /\ pc = "api" /\ TotalRows(staging.db) < MaxRows
  /\ staging' = FileOf(record_deleted_file(staging.db, pfid, PathOf(fid, num),
                                            FileSize(fid)))
  /\ exc' = "none"
  /\ returned' = ReturnsNone
  /\ ApiFrame

ApiLogError(operation) ==
  /\ pc = "api" /\ TotalRows(staging.db) < MaxRows
  /\ staging' = FileOf(log_error(staging.db, operation, "message", <<"mnt", "A">>))
  /\ exc' = "none"
  /\ returned' = ReturnsNone
  /\ ApiFrame

NextLedger ==
  \/ \E path \in LocationPaths, count \in 1..2 : ApiRecordLocation(path, count)
  \/ \E fid \in FileIds, plid \in 1..2,
         d \in {"kept_all", "deleted_some", "deleted_all"} : ApiRecordFile(fid, plid, d)
  \/ \E pfid \in 1..2, fid \in FileIds : ApiRecordDeleted(pfid, fid, 1)
  \/ \E operation \in {"delete", "sweep"} : ApiLogError(operation)

SpecLedger == InitLedger /\ [][NextLedger]_vars

\* ------------------------------------------------------------ the claims
DiscoveredIds(target) ==
  {find_duplicates_in_location(target)[i].archives_app_file_id :
     i \in 1..Len(find_duplicates_in_location(target))}

\* C1 (idempotent re-entry): in every run of a sequence of runs on one
\* ledger, a file id that has a processed_files row when the run starts is
\* dropped before grouping and is never presented in that run.
C1_IdempotentReentry ==
  initialised =>
    \A fid \in ProcessedIds(start_db) :
      fid \notin Range(file_ids) /\ fid \notin Range(presented)

\* The location under which a processed file id was recorded.
ProcessedUnder(db, fid) ==
  {db.locs[db.files[i].processed_location_id].location_path :
     i \in {j \in 1..Len(db.files) : db.files[j].archives_app_file_id = fid}}

\* A later run whose discovery returned one file that an earlier run of
\* the sequence had decided and one file that was decided under another
\* location, and that dropped both before grouping.
C1_Witness ==
  /\ runs >= 2 /\ initialised
  /\ target_location # <<>> /\ pc = "finally"
  /\ \E fid \in ProcessedIds(start_db) \ ProcessedIds(PriorDb) :
        fid \in DiscoveredIds(target_location)
  /\ \E fid \in ProcessedIds(start_db) :
        /\ fid \in DiscoveredIds(target_location)
        /\ location_path \notin ProcessedUnder(start_db, fid)
  /\ presented = <<>>

UniqueFileIds(db) ==
  \A i, j \in 1..Len(db.files) :
    db.files[i].archives_app_file_id = db.files[j].archives_app_file_id => i = j

\* C2: in every ledger state the write operations can produce, no two
\* processed_files rows have the same file id; a record_processed_file for a
\* file id already in the ledger is rejected and leaves the ledger as it
\* was; and the rows already written are never changed.
C2_UniqueFileId ==
  /\ [](UniqueFileIds(staging.db))
  /\ [][/\ IsPrefix(staging.db.files, staging'.db.files)
        /\ exc' = "IntegrityError" => staging' = staging]_vars

\* A record_processed_file for a file id that has a row was just rejected.
C2_Witness ==
  /\ pc = "api"
  /\ exc = "IntegrityError"
  /\ staging.db.files # <<>>

Readable(f) == f.exists => f.complete

\* C3 (atomic sync): at every step of a sync a reader of the canonical
\* remote path sees the complete old contents or the complete new contents
\* (those of the staging copy), never a partial store.
C3_AtomicSync ==
  [][Readable(remote) =>
       /\ Readable(remote')
       /\ remote' = remote \/ remote' = staging]_vars

Last(s) == s[Len(s)]

\* C4: once the services are initialised, run_sweep is not left before a
\* final sync_to_storage was attempted, however the run ended: the last
\* sync_to_storage call before the return is the one of the cleanup phase.
C4_FinalSyncAlways ==
  (pc = "done" /\ initialised) =>
    /\ sync_log # <<>>
    /\ Last(sync_log).caller = "final"

\* The run ended through an exception and a failure while logging it, and
\* the final sync was still made.
C4_Witness ==
  /\ pc = "done" /\ initialised /\ raised
  /\ sync_log # <<>>
  /\ Last(sync_log) = [caller |-> "final", ok |-> TRUE]

\* C5: whenever the cleanup phase is left, also when the final sync
\* failed, both connections are closed and the scratch area is cleaned up.
C5_CleanupReleases ==
  (pc = "done" /\ initialised) => (~conn /\ ~archives_conn /\ ~temp_dir)

\* C6: a periodic checkpoint sync that fails does not end the review loop:
\* the loop goes on to the next file.
C6_CheckpointFailureContinues ==
  [][(sync_caller = "periodic" /\ Len(sync_log') > Len(sync_log)
        /\ ~Last(sync_log').ok)
       => (pc' = "loop" /\ file_idx' = file_idx + 1)]_vars

\* C7 (decision completeness): for every confirmed delete command the
\* recorded decision is deleted_all exactly when the set of selected
\* locations is the set of all locations of the file, else deleted_some.
C7_DecisionCompleteness ==
  \A i \in 1..Len(selections) :
    LET s == selections[i]
        n == Len(get_all_locations_for_file(s.file_id))
        row == staging.db.files[s.processed_file_id]
    IN /\ row.archives_app_file_id = s.file_id
       /\ row.decision = (IF Range(s.valid_numbers) = 1..n
                          THEN "deleted_all" ELSE "deleted_some")

\* The rows a table gained since the constructor returned.
NewRows(rows, start_rows) == SubSeq(rows, Len(start_rows) + 1, Len(rows))

OkCalls == SelectSeq(enqueued, LAMBDA c : c.success)
FailedCalls == SelectSeq(enqueued, LAMBDA c : ~c.success)
NewDeleted == NewRows(staging.db.deleted, start_db.deleted)
NewDeleteErrors ==
  SelectSeq(NewRows(staging.db.errors, start_db.errors),
            LAMBDA e : e.operation = "delete")

\* C8: the deleted_files rows of a run are, one for one and in order, the
\* enqueue calls that returned success, each written after its call
\* returned, for the path of that call, under the processed_files row of a
\* confirmed selection that names the location; there is no row for a
\* failed call or for a location that was not selected.
C8_DeletedOnlyAfterSuccess ==
  initialised =>
    /\ Len(OkCalls) = Len(NewDeleted) + (IF pc = "record" /\ enqueue_result THEN 1 ELSE 0)
    /\ \A i \in 1..Len(NewDeleted) :
         /\ NewDeleted[i].path = OkCalls[i].path
         /\ NewDeleted[i].file_size = FileSize(OkCalls[i].file_id)
         /\ \E k \in 1..Len(selections) :
              /\ selections[k].processed_file_id = NewDeleted[i].processed_file_id
              /\ selections[k].file_id = OkCalls[i].file_id
              /\ \E m \in Range(selections[k].valid_numbers) :
                   PathOf(selections[k].file_id, m) = NewDeleted[i].path

\* A review in which one enqueue succeeded and one failed has ended.
C8_Witness ==
  /\ initialised /\ pc = "checkpoint"
  /\ NewDeleted # <<>>
  /\ FailedCalls # <<>>

\* The errors and deleted_files rows of the run against its enqueue calls.
FailuresLogged ==
  initialised =>
    /\ Len(FailedCalls) =
         Len(NewDeleteErrors) + (IF pc = "record" /\ ~enqueue_result THEN 1 ELSE 0)
    /\ \A i \in 1..Len(NewDeleteErrors) :
         NewDeleteErrors[i].context = FailedCalls[i].path
    /\ Len(NewDeleted) <= Len(OkCalls)
    /\ (pc = "checkpoint" /\ valid_numbers # <<>>) =>
         Len(SelectSeq(enqueued, LAMBDA c : c.file_id = file_id)) = Len(valid_numbers)

\* C9: every failed enqueue leaves exactly one errors row with operation
\* "delete" and the attempted path as context and no deleted_files row; the
\* failure raises nothing: the next selected location is attempted, and
\* after the last one the review of the file ends as after a success, so
\* that every selected location was attempted.
C9_EnqueueFailureLogged ==
  /\ []FailuresLogged
  /\ [][(pc = "record" /\ ~enqueue_result) =>
          /\ pc' = (IF del_idx < Len(valid_numbers) THEN "enqueue" ELSE "checkpoint")
          /\ exc' = exc /\ raised' = raised
          /\ file_ids' = file_ids /\ file_idx' = file_idx]_vars

\* The enqueue for the first selected location failed, the second selected
\* location was attempted all the same, and the review has ended.
C9_Witness ==
  /\ initialised /\ pc = "checkpoint"
  /\ Len(valid_numbers) = 2
  /\ Len(enqueued) >= 2
  /\ ~enqueued[Len(enqueued) - 1].success
  /\ enqueued[Len(enqueued) - 1].file_id = file_id
  /\ NewDeleteErrors # <<>>

CallsTo(path) == Cardinality({j \in 1..Len(enqueued) : enqueued[j].path = path})

\* C10: for a confirmed delete command enqueue_delete_edit is called
\* exactly once for each selected location and never for another one, and
\* no path is enqueued twice in a session.
C10_EnqueueExactlyOnce ==
  /\ \A i \in 1..Len(enqueued) : CallsTo(enqueued[i].path) = 1
  /\ (pc = "checkpoint" /\ valid_numbers # <<>>) =>
       \A n \in 1..Len(all_locations) :
         CallsTo(PathOf(file_id, n)) = (IF n \in Range(valid_numbers) THEN 1 ELSE 0)

\* A list of numbers that names something that is not a location of the file.
HasOutOfRange(numbers, n_locations) ==
  \E i \in 1..Len(numbers) : ~(1 <= numbers[i] /\ numbers[i] <= n_locations)

\* C11: a delete command that contains a number outside 1..locationCount
\* changes nothing, whether or not it also contains in-range numbers and
\* whatever is answered to the confirmation: the same file is prompted
\* again, no ledger row is written and no enqueue is made.
C11_OutOfRangeRejected ==
  [][pc = "prompt" =>
       \A numbers \in NumberLists, confirm \in ConfirmAnswers :
         (/\ HasOutOfRange(numbers, Len(all_locations))
          /\ CmdDelete(numbers, confirm) \/ CmdDeleteNoEffect(numbers, confirm))
         => /\ pc' = "prompt" /\ file_idx' = file_idx
            /\ staging' = staging
            /\ enqueued' = enqueued /\ selections' = selections]_vars

\* The operator has entered q in this run.
QuitEntered ==
  \/ sync_caller = "quit"
  \/ \E i \in 1..Len(sync_log) : sync_log[i].caller = "quit"

\* run_sweep has been left and its final sync had succeeded.
FinalSyncOk ==
  /\ pc = "done" /\ sync_log # <<>>
  /\ Last(sync_log) = [caller |-> "final", ok |-> TRUE]

\* What the remote ledger holds after a run that was quit at the file
\* file_ids[file_idx]: its earlier contents, then the rows of the session;
\* a deleted_files row for each accepted enqueue; a processed_files row for
\* each confirmed delete and only for files presented before the quit; no
\* processed_files row for the file at which q was entered or a later one.
QuitLedger ==
  /\ remote.exists /\ remote.complete
  /\ remote.db = staging.db
  /\ IsPrefix(start_db.locs, remote.db.locs)
  /\ IsPrefix(start_db.files, remote.db.files)
  /\ IsPrefix(start_db.deleted, remote.db.deleted)
  /\ LET new_files == NewRows(remote.db.files, start_db.files)
         new_deleted == NewRows(remote.db.deleted, start_db.deleted)
     IN /\ Len(new_files) <= file_idx - 1
        /\ \A i \in 1..Len(new_files) :
             \E j \in 1..(file_idx - 1) : file_ids[j] = new_files[i].archives_app_file_id
        /\ \A k \in 1..Len(selections) :
             \E i \in 1..Len(new_files) :
               new_files[i].archives_app_file_id = selections[k].file_id
        /\ Len(new_deleted) = Len(OkCalls)
        /\ \A i \in 1..Len(new_deleted) : new_deleted[i].path = OkCalls[i].path
        /\ \A j \in file_idx..Len(file_ids) :
             ~is_file_processed(remote.db, file_ids[j])

RowsKept(a, b) ==
  /\ IsPrefix(a.locs, b.locs) /\ IsPrefix(a.files, b.files)
  /\ IsPrefix(a.deleted, b.deleted) /\ IsPrefix(a.errors, b.errors)

\* C13: the rows a session committed to its staging copy are in the ledger
\* the next command works from once its SweepDB is constructed, whether or
\* not the session's final sync succeeded, so that the decisions of the
\* session still suppress re-presentation.
C13_RowsNeverDiscarded ==
  [][(pc = "idle" /\ conn' /\ staging.exists /\ staging.complete) =>
       /\ RowsKept(staging.db, staging'.db)
       /\ ProcessedIds(staging.db) \subseteq ProcessedIds(start_db')]_vars

\* C14: when the construction of SweepDB succeeds, in sweep, sync-db or
\* init-db, the staging copy equals the remote ledger if there is a remote
\* ledger file, and is a store with the four tables and no rows if there
\* is none, whatever was at the staging path before.
C14_ConstructorStaging ==
  [][(pc = "idle" /\ conn') =>
       staging' = (IF remote'.exists THEN remote' ELSE FileOf(EmptyDb))]_vars

\* C15: when sync-db succeeds, the remote ledger has the contents that the
\* local sweep_db.sqlite had when the command was started, whether or not
\* there was a remote ledger before.
C15_SyncDbCopiesLocal ==
  (/\ pc = "done" /\ sync_log # <<>>
   /\ Last(sync_log) = [caller |-> "sync-db", ok |-> TRUE])
  => remote = local_db

\* C16: a skip writes nothing to the ledger and enqueues nothing: the
\* ledger after it is the ledger before it and has no processed_files row
\* for the skipped file; every run reviews all the discovered files that
\* have no processed_files row, so a later sweep of the location presents
\* the skipped file again.
C16_SkipWritesNothing ==
  /\ [][CmdSkip =>
          /\ staging' = staging /\ remote' = remote
          /\ enqueued' = enqueued /\ selections' = selections
          /\ ~is_file_processed(staging'.db, file_id)
          /\ file_id \in DiscoveredIds(target_location)]_vars
  /\ [][(pc = "try" /\ pc' = "loop") =>
          \A fid \in DiscoveredIds(target_location') :
            ~is_file_processed(staging.db, fid) => fid \in Range(file_ids')]_vars

\* A later sweep of a location that an earlier sweep of the sequence had
\* reviewed presents a file that was left without a decision, and the
\* operator has just skipped it.
C16_Witness ==
  /\ runs >= 2 /\ pc = "checkpoint" /\ valid_numbers = <<>>
  /\ ~is_file_processed(staging.db, file_id)
  /\ \E i \in 1..Len(start_db.locs) : start_db.locs[i].location_path = location_path

\* C17: `o N` never advances the file, for every N, in range or not, and
\* whether or not the copy and the viewer succeed: the same file is
\* prompted again, nothing is presented, the ledger and the remote ledger
\* are unchanged and nothing is enqueued.
C17_OpenNeverAdvances ==
  [][pc = "prompt" =>
       \A num \in Numbers, opened \in BOOLEAN :
         CmdOpen(num, opened) =>
           /\ pc' = "prompt" /\ file_idx' = file_idx /\ file_ids' = file_ids
           /\ presented' = presented
           /\ staging' = staging /\ remote' = remote
           /\ enqueued' = enqueued /\ selections' = selections]_vars

\* A location was opened, the file is still at the prompt and has no
\* processed_files row.
C17_Witness ==
  /\ pc = "prompt" /\ temp_dir
  /\ ~is_file_processed(staging.db, file_id)
  /\ enqueued = <<>>

\* C18: an exception raised after initialisation is caught at sweep level
\* and handled there: exactly one errors row with operation "sweep" and the
\* operator's location path as context is written, nothing is raised out
\* of the handler, no further file is presented, and the final sync follows.
C18_SweepExceptionLogged ==
  [][pc = "except" =>
       /\ staging'.db.errors =
            Append(staging.db.errors,
                   [operation |-> "sweep", message |-> exc, context |-> location_path])
       /\ raised' = raised
       /\ presented' = presented
       /\ pc' = "finally"]_vars

\* C19 (fatal startup): when a required configuration value is missing or
\* the ledger cannot be copied or created, the sweep ends at once: no file
\* is presented, nothing is enqueued, no connection is open, the remote
\* ledger is as it was and nothing was written at the staging path.
C19_FatalStartup ==
  [][(pc = "idle" /\ pc' = "done" /\ ~conn') =>
       /\ presented' = <<>> /\ enqueued' = <<>>
       /\ ~archives_conn'
       /\ remote' = remote
       /\ staging' = staging]_vars

\* ------------------------------------------------------ the path functions
\* build_file_path and extract_server_dirs as pure functions of their
\* arguments and of the file system: a mount, a server directory of at most
\* MaxLen segments and the symbolic links under the mount are chosen, the
\* directory is joined onto the mount and the result is taken back.
MaxLen == 3         \* segments of the server directory

Mounts == {<<"mnt">>, <<"srv", "records">>}

Segments == {"A", "B", "", ".", ".."}

RECURSIVE PathsUpTo(_)
PathsUpTo(n) ==
  IF n = 0 THEN {<<>>}
  ELSE LET shorter == PathsUpTo(n - 1)
       IN shorter \cup {Append(p, sg) : p \in {q \in shorter : Len(q) = n - 1},
                                           sg \in Segments}

ServerDirs == PathsUpTo(MaxLen)

\* The directory A under the mount is a real directory, a link to its
\* sibling B, or a link to a directory outside the mount.
LinkSets(mount) ==
  {{}, {<<Append(mount, "A"), Append(mount, "B")>>},
       {<<Append(mount, "A"), <<"tmp">>>>}}

InitPaths ==
  /\ mount_arg \in Mounts /\ path_arg \in ServerDirs
  /\ links \in LinkSets(mount_arg)
  /\ ACTIVE_FILTERS = AsShipped /\ records_arg = <<>> /\ filtered = <<>>
  /\ returned = ReturnsNone
  /\ user_input = <<>> /\ cmd_type = "none" /\ cmd_numbers = <<>>
  /\ answer = <<>>
  /\ other = NotStarted
  /\ remote = NoFile /\ tmp = NoFile /\ staging = NoFile
  /\ conn = FALSE /\ archives_conn = FALSE /\ temp_dir = FALSE
  /\ pc = "paths" /\ sync_caller = "none" /\ exc = "none" /\ raised = FALSE
  /\ location_path = <<>> /\ target_location = <<>> /\ location_id = 0
  /\ file_ids = <<>> /\ file_idx = 0
  /\ valid_numbers = <<>> /\ del_idx = 0 /\ processed_file_id = 0
  /\ decision = "none" /\ enqueue_result = FALSE
  /\ last_sync_time = 0 /\ current_time = 0 /\ now = 0
  /\ runs = 0 /\ initialised = FALSE /\ start_db = EmptyDb /\ local_db = NoFile
  /\ presented = <<>> /\ selections = <<>> /\ enqueued = <<>> /\ sync_log = <<>>

PathFrame ==
  UNCHANGED <<files, resources, sync_caller, raised, location_id, file_ids,
              file_idx, delete_locals, clock, history, path_args, filter_args,
              returned, prompt_args, other>>

\* build_file_path(base_mount, server_dir): location_path holds the result.
PathBuild ==
  /\ pc = "paths"
  /\ location_path' = build_file_path(mount_arg, path_arg, None)
  /\ pc' = "built"
  /\ UNCHANGED <<target_location, exc>>
  /\ PathFrame

\* extract_server_dirs(full_path, base_mount) returns: target_location
\* holds the result.
PathExtract ==
  /\ pc = "built" /\ UnderMount(location_path, mount_arg)
  /\ target_location' = extract_server_dirs(location_path, mount_arg)
  /\ pc' = "extracted"
  /\ UNCHANGED <<location_path, exc>>
  /\ PathFrame

\* extract_server_dirs raises ValueError: the path is not under the mount.
PathExtractRaises ==
  /\ pc = "built" /\ ~UnderMount(location_path, mount_arg)
  /\ exc' = "ValueError"
  /\ pc' = "extracted"
  /\ UNCHANGED <<location_path, target_location>>
  /\ PathFrame

NextPaths == PathBuild \/ PathExtract \/ PathExtractRaises

SpecPaths == InitPaths /\ [][NextPaths]_vars

\* A canonical relative path: forward-slash-separated segments, none of them
\* empty, "." or "..".
IsCanonical(path) == \A i \in 1..Len(path) : path[i] \notin {"", ".", ".."}

\* C20 (path round trip): for every canonical relative path P and every
\* mount M, extract_server_dirs(build_file_path(M, P), M) returns P.
C20_PathRoundTrip ==
  (pc = "extracted" /\ IsCanonical(path_arg)) =>
     exc = "none" /\ target_location = path_arg

\* ----------------------------------------------------------- apply_filters
\* apply_filters as a function of its argument and of the ACTIVE_FILTERS
\* list: any of the filters of filters.py are active, in any order, and any
\* sequence of at most MaxRecords records is handed over.
MaxRecords == 2     \* records handed to apply_filters

FilterNames == {"no_filter", "exclude_cad_fonts", "exclude_system_files"}

\* The lists of distinct filter names.
Orderings ==
  {f \in UNION {[1..n -> FilterNames] : n \in 0..Cardinality(FilterNames)} :
     \A i, j \in 1..Len(f) : i # j => f[i] # f[j]}

Filenames ==
  {[stem |-> "plan", last4 |-> ".pdf"], [stem |-> "FONT", last4 |-> ".SHX"],
   [stem |-> "hatch", last4 |-> ".pat"], [stem |-> "Thumb", last4 |-> "s.db"]}

FileRecords == [archives_app_file_id : {1}, filename : Filenames]

RecordLists == UNION {[1..n -> FileRecords] : n \in 0..MaxRecords}

InitFilters ==
  /\ ACTIVE_FILTERS \in Orderings /\ records_arg \in RecordLists /\ filtered = <<>>
  /\ returned = ReturnsNone
  /\ user_input = <<>> /\ cmd_type = "none" /\ cmd_numbers = <<>>
  /\ answer = <<>>
  /\ other = NotStarted
  /\ mount_arg = Mount /\ path_arg = <<>> /\ links = {}
  /\ remote = NoFile /\ tmp = NoFile /\ staging = NoFile
  /\ conn = FALSE /\ archives_conn = FALSE /\ temp_dir = FALSE
  /\ pc = "filters" /\ sync_caller = "none" /\ exc = "none" /\ raised = FALSE
  /\ location_path = <<>> /\ target_location = <<>> /\ location_id = 0
  /\ file_ids = <<>> /\ file_idx = 0
  /\ valid_numbers = <<>> /\ del_idx = 0 /\ processed_file_id = 0
  /\ decision = "none" /\ enqueue_result = FALSE
  /\ last_sync_time = 0 /\ current_time = 0 /\ now = 0
  /\ runs = 0 /\ initialised = FALSE /\ start_db = EmptyDb /\ local_db = NoFile
  /\ presented = <<>> /\ selections = <<>> /\ enqueued = <<>> /\ sync_log = <<>>

\* apply_filters(file_records): filtered holds the result.
ApplyFilters ==
  /\ pc = "filters"
  /\ filtered' = apply_filters(records_arg)
  /\ pc' = "filtered"
  /\ UNCHANGED <<files, resources, sync_caller, exc, raised, sweep_locals,
                 delete_locals, clock, history, path_args, ACTIVE_FILTERS,
                 records_arg, returned, prompt_args, other>>

NextFilters == ApplyFilters

SpecFilters == InitFilters /\ [][NextFilters]_vars

\* C21 (filter composition): whatever the records handed over and whatever
\* the order of the active filters, apply_filters returns exactly the
\* records that no active filter excludes, in their input order; a record
\* that one of the filters excludes is not in the result.
C21_FilterComposition ==
  pc = "filtered" =>
    /\ filtered =
         SelectSeq(records_arg,
                   LAMBDA r : \A i \in 1..Len(ACTIVE_FILTERS) :
                                 ~filter_func(ACTIVE_FILTERS[i], r))
    /\ \A i \in 1..Len(ACTIVE_FILTERS), k \in 1..Len(records_arg) :
         filter_func(ACTIVE_FILTERS[i], records_arg[k])
           => records_arg[k] \notin Range(filtered)

\* Two filters are active, the first record is excluded by the second of
\* them only, the next record by none, and the result is the next record.
C21_Witness ==
  /\ pc = "filtered" /\ Len(ACTIVE_FILTERS) >= 2 /\ Len(records_arg) >= 2
  /\ ~filter_func(ACTIVE_FILTERS[1], records_arg[1])
  /\ filter_func(ACTIVE_FILTERS[2], records_arg[1])
  /\ \A i \in 1..Len(ACTIVE_FILTERS) : ~filter_func(ACTIVE_FILTERS[i], records_arg[2])
  /\ filtered = <<records_arg[2]>>

\* The table of b that has one row more than in a.
GrownTable(a, b) ==
  CHOOSE t \in {"locs", "files", "deleted", "errors"} : Len(b[t]) = Len(a[t]) + 1

\* C22 (write operations): each of the four write operations that returns
\* has committed one new row to the staging copy, the rows before it kept,
\* and returns the identifier assigned to that row.
C22_WritesReturnId ==
  [][(pc = "api" /\ exc' = "none") =>
       /\ TotalRows(staging'.db) = TotalRows(staging.db) + 1
       /\ RowsKept(staging.db, staging'.db)
       /\ returned' = Returns(Len(staging'.db[GrownTable(staging.db, staging'.db)]))]_vars

\* ------------------------------------------------------ parse_user_command
\* The operator's input is the sequence of its characters.
Whitespace == {" ", "\t"}

Digits == {"1", "2"}

DigitValue(ch) == IF ch = "1" THEN 1 ELSE 2

\* A faulty variant of strip, for comparison: the input is taken as typed.
StripNothing(command) == command

\* str.strip(): the whitespace at both ends is dropped.
RECURSIVE strip(_)
strip(command) ==
  IF command = <<>> THEN <<>>
  ELSE IF Head(command) \in Whitespace THEN strip(Tail(command))
  ELSE IF command[Len(command)] \in Whitespace
       THEN strip(SubSeq(command, 1, Len(command) - 1))
  ELSE command

\* str.split(): the maximal runs of characters that are not whitespace.
RECURSIVE SplitOnto(_, _, _)
SplitOnto(words, word, rest) ==
  IF rest = <<>> THEN (IF word = <<>> THEN words ELSE Append(words, word))
  ELSE IF Head(rest) \in Whitespace
       THEN SplitOnto(IF word = <<>> THEN words ELSE Append(words, word), <<>>, Tail(rest))
  ELSE SplitOnto(words, Append(word, Head(rest)), Tail(rest))

split(command) == SplitOnto(<<>>, <<>>, command)

\* int(x) for a word of the input: ValueError unless every character is a
\* digit, else the decimal value.
IntRaises(word) == word = <<>> \/ \E i \in 1..Len(word) : word[i] \notin Digits

RECURSIVE int(_)
int(word) ==
  IF Len(word) = 1 THEN DigitValue(word[1])
  ELSE 10 * int(SubSeq(word, 1, Len(word) - 1)) + DigitValue(word[Len(word)])

\* command.startswith('o ')
StartsWithO(command) == Len(command) >= 2 /\ command[1] = "o" /\ command[2] = " "

\* sweep.parse_user_command
parse_user_command(raw) ==
  LET command == lower_str(strip(raw))
      words == split(command)
  IN IF command = <<>> THEN <<"invalid", <<>> >>
     ELSE IF command = <<"c">> THEN <<"keep", <<>> >>
     ELSE IF command = <<"s">> THEN <<"skip", <<>> >>
     ELSE IF command = <<"q">> THEN <<"quit", <<>> >>
     ELSE IF StartsWithO(command)
          THEN IF Len(words) < 2 \/ IntRaises(words[2]) THEN <<"invalid", <<>> >>
               ELSE <<"open", <<int(words[2])>> >>
     ELSE IF \E i \in 1..Len(words) : IntRaises(words[i]) THEN <<"invalid", <<>> >>
     ELSE <<"delete", [i \in 1..Len(words) |-> int(words[i])]>>

\* The prompt of one file of a sweep: the operator answers it with at most
\* MaxChars characters (and with the same again when asked again), the
\* input is parsed and run_sweep takes the branch of the command type.
MaxChars == 4       \* characters the operator types at one prompt

Alphabet == {" ", "\t", "c", "S", "q", "o", "O", "1", "2", "x"}

Inputs == UNION {[1..n -> Alphabet] : n \in 0..MaxChars}

\* The first file of a sweep of /mnt/A on a new ledger is on display.
InitParse ==
  /\ remote = NoFile /\ tmp = NoFile
  /\ staging = FileOf(record_processed_location(EmptyDb, <<"mnt", "A">>, 2, FALSE))
  /\ conn = TRUE /\ archives_conn = TRUE /\ temp_dir = FALSE
  /\ pc = "prompt" /\ sync_caller = "none" /\ exc = "none" /\ raised = FALSE
  /\ location_path = <<"mnt", "A">> /\ target_location = <<"A">> /\ location_id = 1
  /\ file_ids = <<1, 2>> /\ file_idx = 1
  /\ valid_numbers = <<>> /\ del_idx = 0 /\ processed_file_id = 0
  /\ decision = "none" /\ enqueue_result = FALSE
  /\ last_sync_time = 0 /\ current_time = 0 /\ now = 0
  /\ runs = 1 /\ initialised = TRUE /\ start_db = EmptyDb /\ local_db = NoFile
  /\ presented = <<1>> /\ selections = <<>> /\ enqueued = <<>> /\ sync_log = <<>>
  /\ mount_arg = Mount /\ path_arg = <<>> /\ links = {}
  /\ ACTIVE_FILTERS = AsShipped /\ records_arg = <<>> /\ filtered = <<>>
  /\ returned = ReturnsNone
  /\ user_input \in Inputs /\ cmd_type = "none" /\ cmd_numbers = <<>>
  /\ answer = <<>>
  /\ other = NotStarted

ParseFrame ==
  UNCHANGED <<files, resources, sync_caller, exc, raised, sweep_locals,
              delete_locals, clock, history, path_args, filter_args, returned,
              other>>

\* Lines 252-253: Prompt.ask, then parse_user_command.
Ask ==
  /\ pc = "prompt"
  /\ cmd_type' = parse_user_command(user_input)[1]
  /\ cmd_numbers' = parse_user_command(user_input)[2]
  /\ pc' = "parsed"
  /\ UNCHANGED <<user_input, answer>>
  /\ ParseFrame

\* Lines 255-257: the command type is invalid: a message, then the prompt
\* of the same file again.
BranchInvalid ==
  /\ pc = "parsed" /\ cmd_type = "invalid"
  /\ pc' = "prompt"
  /\ UNCHANGED prompt_args
  /\ ParseFrame

\* Lines 259-295: the branch of another command type is entered.
BranchCommand ==
  /\ pc = "parsed" /\ cmd_type # "invalid"
  /\ pc' = "branch"
  /\ UNCHANGED prompt_args
  /\ ParseFrame

NextParse ==
  \/ Ask
  \/ BranchInvalid
  \/ BranchCommand

SpecParse == InitParse /\ [][NextParse]_vars

\* The words of the input: what whitespace separates, letters in lower case.
Words(raw) == split(lower_str(raw))

AllIntegers(words) == \A i \in 1..Len(words) : ~IntRaises(words[i])

\* The character after the first character that is not whitespace is a space.
SpaceAfterFirst(raw) == Len(strip(raw)) >= 2 /\ strip(raw)[2] = " "

\* The command a sequence of words stands for; o_is_open tells whether the
\* word o, standing first, makes an open command of the word after it.
CommandOf(words, o_is_open) ==
  IF words = <<>> THEN <<"invalid", <<>> >>
  ELSE IF words = << <<"c">> >> THEN <<"keep", <<>> >>
  ELSE IF words = << <<"s">> >> THEN <<"skip", <<>> >>
  ELSE IF words = << <<"q">> >> THEN <<"quit", <<>> >>
  ELSE IF Len(words) >= 2 /\ words[1] = <<"o">> /\ ~IntRaises(words[2]) /\ o_is_open
       THEN <<"open", <<int(words[2])>> >>
  ELSE IF AllIntegers(words)
       THEN <<"delete", [i \in 1..Len(words) |-> int(words[i])]>>
  ELSE <<"invalid", <<>> >>

\* An input that was parsed as invalid leads back to the prompt of the same
\* file and changes nothing else.
InvalidReprompts ==
  [][(pc = "parsed" /\ cmd_type = "invalid") =>
       /\ pc' = "prompt"
       /\ UNCHANGED <<files, resources, sync_caller, exc, raised, sweep_locals,
                      delete_locals, clock, history>>]_vars

\* C23 (command parsing): every input is parsed, without regard to letter
\* case and to whitespace at its ends: c is keep, s is skip, q is quit, the
\* word o followed by a space character and then, after any further
\* whitespace, by an integer is open with that integer (what follows the
\* integer is ignored), a non-empty whitespace-separated list of integers
\* is delete with those integers, and every other input, the empty one and
\* o without a number among them, is invalid; an invalid input leads back
\* to the prompt of the same file without any change of state.
C23_CommandParsing ==
  /\ [](pc = "parsed" =>
          <<cmd_type, cmd_numbers>> =
             CommandOf(Words(user_input), SpaceAfterFirst(user_input)))
  /\ InvalidReprompts

\* An open command typed with whitespace around it and a capital O.
C23_Witness ==
  /\ pc = "branch" /\ cmd_type = "open" /\ cmd_numbers = <<2>>
  /\ Head(user_input) = " " /\ "O" \in Range(user_input)

\* C23 as it was stated: the word o followed by an integer is open,
\* whatever whitespace separates them.
C23_AnyWhitespaceOpens ==
  /\ [](pc = "parsed" =>
          <<cmd_type, cmd_numbers>> = CommandOf(Words(user_input), TRUE))
  /\ InvalidReprompts

\* ------------------------------------------------- one sweep and the clock
\* One sweep with an operator who decides every file, a deletion service
\* that accepts every request and syncs that may fail, on a clock that
\* advances in steps of ShortTick seconds up to MaxClock, while Prompt.ask
\* blocks and while sync_to_storage copies the ledger.
ShortTick == 300
MaxClock == 1200    \* seconds of session time in SpecClock

ClockAdvances ==
  /\ pc \in {"prompt", "sync_copy", "sync_move"}
  /\ now + ShortTick <= MaxClock
  /\ now' = now + ShortTick
  /\ UNCHANGED <<files, resources, control, sweep_locals,
                 delete_locals, last_sync_time, current_time, history>>
  /\ UNCHANGED fn_args

NextClock ==
  \/ runs = 0 /\ \E path \in LocationPaths : StartRun(path)
  \/ Exit
  \/ TranslateRaises
  \/ Discover
  \/ NextFile
  \/ LoopEnds
  \/ ClockAdvances
  \/ CmdSkip
  \/ CmdKeep
  \/ pc = "prompt" /\ \E numbers \in NumberLists : CmdDelete(numbers, <<"y", "e", "s">>)
  \/ CmdQuit
  \/ Enqueue(TRUE)
  \/ RecordOutcome
  \/ Checkpoint
  \/ Except
  \/ Finally
  \/ SyncCopy
  \/ SyncCopyRaises
  \/ SyncMoveRename

SpecClock == Init /\ [][NextClock]_vars

\* A periodic sync is being performed.
PeriodicSync == sync_caller = "periodic"

\* The review of the file at file_idx ended with this step: by keep (a
\* kept_all row is written), by skip (nothing is written) or by the last
\* request of a delete command.
ReviewEnds ==
  \/ /\ pc = "prompt"
     /\ \/ staging' = staging
        \/ staging'.db.files =
             Append(staging.db.files,
                    [archives_app_file_id |-> file_id,
                     processed_location_id |-> location_id,
                     decision |-> "kept_all"])
  \/ /\ pc = "record" /\ del_idx = Len(valid_numbers)
     /\ is_file_processed(staging.db, file_id)

\* C24 (checkpoint timing): the check for a periodic sync is made only when
\* the review of a file ended by keep, delete or skip; a periodic sync is
\* started at that check, and only there, exactly when 600 seconds or more
\* have passed since the reference time (the start of the loop, or the
\* check of the last successful periodic sync); none runs while a file is
\* at its prompt; and a periodic sync that succeeds makes the time of its
\* check the new reference time, while one that fails leaves it.
C24_CheckpointTiming ==
  /\ [](PeriodicSync => pc \in {"sync_copy", "sync_move"})
  /\ [][(pc' = "checkpoint" /\ pc # "checkpoint") => ReviewEnds]_vars
  /\ [][(PeriodicSync' /\ ~PeriodicSync) => pc = "checkpoint"]_vars
  /\ [][pc = "checkpoint" =>
          /\ current_time' = now
          /\ PeriodicSync' <=> (now - last_sync_time >= 600)]_vars
  /\ [][(PeriodicSync /\ ~PeriodicSync') =>
          /\ Last(sync_log').caller = "periodic"
          /\ last_sync_time' = (IF Last(sync_log').ok THEN current_time
                                ELSE last_sync_time)]_vars
  /\ [][last_sync_time' # last_sync_time =>
          (PeriodicSync \/ pc \in {"idle", "done"})]_vars

\* A second check: the first file's check at 600 seconds started a sync
\* that took 300 seconds and succeeded, the second file was decided 300
\* seconds after the sync ended, 600 seconds after the first check, and a
\* second periodic sync is running.
C24_Witness ==
  /\ PeriodicSync /\ file_idx = 2
  /\ last_sync_time = 600 /\ current_time = 1200
  /\ sync_log = <<[caller |-> "periodic", ok |-> TRUE]>>

\* The file ids discovery returns for the target that pass the filters and
\* have no processed_files row in the ledger.
ReviewableIds(target, db) ==
  {r.archives_app_file_id :
     r \in Range(apply_filters(find_duplicates_in_location(target)))}
  \ ProcessedIds(db)

\* The processed_locations rows this invocation added.
NewLocations == NewRows(staging.db.locs, start_db.locs)

\* C25 (the location row): a sweep that finds at least one file to review
\* creates exactly one processed_locations row, before the first file is
\* presented, with the operator's path, completed = 0 and a duplicates
\* count equal to the number of distinct file ids that remain after the
\* filters and after the processed ones are dropped; a sweep that finds
\* nothing to review creates none.
C25_OneLocationRow ==
  /\ []((initialised /\ pc # "idle") =>
          Len(NewLocations) = (IF file_ids # <<>> THEN 1 ELSE 0))
  /\ [](presented # <<>> => Len(NewLocations) = 1)
  /\ [][(pc = "try" /\ pc' = "loop") =>
          /\ presented' = <<>>
          /\ staging'.db.locs =
               Append(start_db.locs,
                      [location_path |-> location_path,
                       duplicates_count |->
                         Cardinality(ReviewableIds(target_location', start_db)),
                       completed |-> 0])]_vars
  /\ [][(pc = "try" /\ pc' # "loop") => staging'.db.locs = start_db.locs]_vars

\* A later sweep whose discovery returned two file ids of which one had
\* been decided before: the row it created counts one.
C25_Witness ==
  /\ runs >= 2 /\ pc = "prompt"
  /\ Cardinality(DiscoveredIds(target_location)) = 2
  /\ Len(NewLocations) = 1 /\ NewLocations[1].duplicates_count = 1

\* C25 as it was stated: every sweep invocation that got past its start
\* has created exactly one row when it ends.
C25_EverySweepOneRow ==
  (initialised /\ pc = "done") => Len(NewLocations) = 1

\* -------------------------------------------------- the order of the review
\* The position of the first record of file fid in the discovery result.
FirstAppearance(records, fid) ==
  CHOOSE i \in 1..Len(records) :
    /\ records[i].archives_app_file_id = fid
    /\ \A j \in 1..(i - 1) : records[j].archives_app_file_id # fid

InDiscoveryOrder(ids, records) ==
  /\ \A i \in 1..Len(ids) :
       \E k \in 1..Len(records) : records[k].archives_app_file_id = ids[i]
  /\ \A i, j \in 1..Len(ids) :
       i < j => FirstAppearance(records, ids[i]) < FirstAppearance(records, ids[j])

\* The step in which the review of file_id reaches a terminal state: skip
\* (line 267), keep (lines 271-277), or the end of the loop over the
\* selected numbers of a confirmed delete (line 362).
ReachesSkipped == pc = "prompt" /\ staging' = staging
ReachesKept ==
  /\ pc = "prompt"
  /\ staging'.db.files = Append(staging.db.files,
                                [archives_app_file_id |-> file_id,
                                 processed_location_id |-> location_id,
                                 decision |-> "kept_all"])
ReachesDeleted ==
  /\ pc = "record" /\ del_idx = Len(valid_numbers)
  /\ staging.db.files[processed_file_id].archives_app_file_id = file_id
  /\ staging.db.files[processed_file_id].decision \in {"deleted_some", "deleted_all"}
  /\ Cardinality({i \in 1..Len(enqueued) : enqueued[i].file_id = file_id})
       = Len(valid_numbers)
ReachesTerminal == ReachesSkipped \/ ReachesKept \/ ReachesDeleted

\* The positions of sync_to_storage.
InSync == {"sync_copy", "sync_move", "sync_move_copy"}

\* C26: within one run the files are presented in the order of their first
\* appearance in the discovery result, each at most once; a file is
\* presented only from the head of the loop, the head of the loop is
\* reached after a review only through the periodic check (with or
\* without its sync), and the periodic check is reached only by the step
\* in which the file under review was skipped, kept, or deleted to the end
\* of the selection.
C26_PresentationOrder ==
  /\ [](InDiscoveryOrder(presented, find_duplicates_in_location(target_location)))
  /\ [](presented = SubSeq(file_ids, 1, Len(presented)))
  /\ [][Len(presented') > Len(presented) =>
          /\ pc = "loop"
          /\ presented' = Append(presented, file_ids[Len(presented) + 1])
          /\ file_idx = Len(presented) + 1]_vars
  /\ [][(pc' = "loop" /\ pc # "loop") =>
          \/ pc = "try" /\ presented = <<>>
          \/ pc = "checkpoint" /\ file_idx' = file_idx + 1
          \/ pc \in InSync /\ sync_caller = "periodic" /\ file_idx' = file_idx + 1]_vars
  /\ [][(pc' \in InSync /\ sync_caller' = "periodic" /\ pc \notin InSync) =>
          pc = "checkpoint"]_vars
  /\ [][(pc' = "checkpoint" /\ pc # "checkpoint") =>
          /\ ReachesTerminal
          /\ file_idx' = file_idx /\ file_idx = Len(presented)]_vars

\* The second file of the location is at the prompt after the first was
\* deleted in part: both numbers of the selection went to the deletion
\* service before it was presented.
C26_Witness ==
  /\ pc = "prompt" /\ presented = <<1, 2>>
  /\ \E i \in 1..Len(staging.db.files) :
       /\ staging.db.files[i].archives_app_file_id = 1
       /\ staging.db.files[i].decision = "deleted_all"
  /\ Len(enqueued) = 2

\* ------------------------------------------- the confirmation of a delete
\* The first file of a sweep of /mnt/A on a new ledger is on display; the
\* operator enters delete commands and answers the confirmation with one
\* of the words below in any letter case, or skips the file; the deletion
\* service accepts every request.
AnswerWords ==
  { <<"y", "e", "s">>, <<"y">>, <<"n", "o">>, <<"n">>, <<"y", "e">> }

Upper(ch) ==
  CASE ch = "y" -> "Y"
    [] ch = "e" -> "E"
    [] ch = "s" -> "S"
    [] ch = "n" -> "N"
    [] ch = "o" -> "O"
    [] OTHER -> ch

\* The spellings of a word in every mixture of upper and lower case.
CaseVariants(word) ==
  {a \in [1..Len(word) -> {"y", "e", "s", "n", "o", "Y", "E", "S", "N", "O"}] :
     \A i \in 1..Len(word) : a[i] \in {word[i], Upper(word[i])}}

Answers == UNION {CaseVariants(word) : word \in AnswerWords}

InitConfirm ==
  /\ remote = NoFile /\ tmp = NoFile
  /\ staging = FileOf(record_processed_location(EmptyDb, <<"mnt", "A">>, 2, FALSE))
  /\ conn = TRUE /\ archives_conn = TRUE /\ temp_dir = FALSE
  /\ pc = "prompt" /\ sync_caller = "none" /\ exc = "none" /\ raised = FALSE
  /\ location_path = <<"mnt", "A">> /\ target_location = <<"A">> /\ location_id = 1
  /\ file_ids = <<1, 2>> /\ file_idx = 1
  /\ valid_numbers = <<>> /\ del_idx = 0 /\ processed_file_id = 0
  /\ decision = "none" /\ enqueue_result = FALSE
  /\ last_sync_time = 0 /\ current_time = 0 /\ now = 0
  /\ runs = 1 /\ initialised = TRUE /\ start_db = EmptyDb /\ local_db = NoFile
  /\ presented = <<1>> /\ selections = <<>> /\ enqueued = <<>> /\ sync_log = <<>>
  /\ mount_arg = Mount /\ path_arg = <<>> /\ links = {}
  /\ ACTIVE_FILTERS = AsShipped /\ records_arg = <<>> /\ filtered = <<>>
  /\ returned = ReturnsNone
  /\ user_input = <<>> /\ cmd_type = "none" /\ cmd_numbers = <<>>
  /\ answer = <<>>
  /\ other = NotStarted

ConfirmFrame ==
  UNCHANGED <<files, resources, sync_caller, exc, raised, sweep_locals, clock,
              history, path_args, filter_args, returned,
              user_input, cmd_type, cmd_numbers, other>>

\* Lines 297-313: the numbers of a delete command are validated; without
\* a valid one the prompt repeats, else the paths are listed.
DeleteCommand(numbers) ==
  /\ pc = "prompt"
  /\ valid_numbers' = ValidNumbers(numbers, Len(all_locations))
  /\ pc' = IF ValidNumbers(numbers, Len(all_locations)) = <<>> THEN "prompt" ELSE "confirm"
  /\ UNCHANGED <<del_idx, processed_file_id, decision, enqueue_result, answer>>
  /\ ConfirmFrame

\* Line 315: Prompt.ask("Confirm deletion? (yes/no)", default="no")
AskConfirm(confirm) ==
  /\ pc = "confirm"
  /\ answer' = confirm
  /\ pc' = "answered"
  /\ UNCHANGED delete_locals
  /\ ConfirmFrame

\* Lines 316-318: "Deletion cancelled.", continue.
Declined ==
  /\ pc = "answered" /\ ~confirms(answer)
  /\ pc' = "prompt"
  /\ UNCHANGED <<delete_locals, answer>>
  /\ ConfirmFrame

\* Lines 320-330: the decision is recorded.
Confirmed ==
  /\ pc = "answered" /\ confirms(answer)
  /\ LET d == Decision(valid_numbers, Len(all_locations))
     IN IF UniqueViolation(staging.db, file_id)
        THEN /\ Raise("IntegrityError")
             /\ UNCHANGED <<staging, delete_locals, selections>>
        ELSE /\ staging' = FileOf(record_processed_file(staging.db, file_id,
                                                          location_id, d))
             /\ processed_file_id' = Len(staging.db.files) + 1
             /\ decision' = d
             /\ del_idx' = 1
             /\ UNCHANGED <<valid_numbers, enqueue_result>>
             /\ selections' = Append(selections,
                                     [file_id |-> file_id,
                                      valid_numbers |-> valid_numbers,
                                      processed_file_id |-> Len(staging.db.files) + 1])
             /\ pc' = "enqueue" /\ exc' = exc
  /\ UNCHANGED <<remote, tmp, resources, sync_caller, raised,
                 sweep_locals, clock, runs, initialised, start_db, local_db,
                 presented, enqueued, sync_log>>
  /\ UNCHANGED fn_args

NextConfirm ==
  \/ pc = "prompt" /\ \E numbers \in NumberLists : DeleteCommand(numbers)
  \/ \E confirm \in Answers : AskConfirm(confirm)
  \/ Declined
  \/ Confirmed
  \/ Enqueue(TRUE)
  \/ RecordOutcome
  \/ Checkpoint
  \/ CmdSkip
  \/ NextFile
  \/ LoopEnds

SpecConfirm == InitConfirm /\ [][NextConfirm]_vars

\* yes and y in every letter case
YesInAnyCase == CaseVariants(<<"y", "e", "s">>) \cup CaseVariants(<<"y">>)

\* What a delete command leaves alone until it is confirmed.
NothingChanges ==
  /\ staging' = staging /\ remote' = remote /\ tmp' = tmp
  /\ enqueued' = enqueued /\ selections' = selections
  /\ file_ids' = file_ids /\ file_idx' = file_idx /\ presented' = presented

\* C27: a delete command whose confirmation is answered with anything but
\* yes or y (in any letter case) changes nothing: from the command to the
\* answer and through the branch on the answer no ledger row is written
\* and the deletion service is not called, and the branch leads back to
\* the prompt of the same file; an answer of yes or y in any letter case
\* is a confirmation, and the decision is recorded.
C27_UnconfirmedDeleteNoEffect ==
  /\ [][(pc = "prompt" /\ pc' = "confirm") => NothingChanges]_vars
  /\ [][pc = "confirm" => (pc' = "answered" /\ NothingChanges)]_vars
  /\ [][(pc = "answered" /\ answer \notin YesInAnyCase) =>
          (pc' = "prompt" /\ NothingChanges)]_vars
  /\ [][(pc = "answered" /\ answer \in YesInAnyCase) =>
          /\ pc' = "enqueue"
          /\ is_file_processed(staging'.db, file_id)]_vars
  /\ [](pc \in {"confirm", "answered"} =>
          /\ ~is_file_processed(staging.db, file_id)
          /\ \A i \in 1..Len(enqueued) : enqueued[i].file_id # file_id)

\* The operator asked to delete both copies of the first file and answered
\* No: the file is at the prompt again, and the ledger is as it was.
C27_Witness ==
  /\ pc = "prompt" /\ answer = <<"N", "o">> /\ valid_numbers = <<1, 2>>
  /\ presented = <<1>> /\ file_idx = 1
  /\ staging = FileOf(record_processed_location(EmptyDb, <<"mnt", "A">>, 2, FALSE))
  /\ enqueued = <<>> /\ selections = <<>>

\* ------------------------------------------------------ the completed flag
\* The processed_locations rows of a file of the ledger.
LocationRows(f) == {f.db.locs[i] : i \in 1..Len(f.db.locs)}

OtherLocation == <<"mnt", "A">>

FirstProcess ==
  <<staging, resources, control, sweep_locals, delete_locals, clock, history,
    path_args, filter_args, returned, prompt_args>>

\* SweepDB.__init__ in a directory without a sweep_db.sqlite: a copy of
\* the remote file when there is one, else a new store.
OtherStart ==
  /\ other.pc = "idle"
  /\ other' = [other EXCEPT !.pc = "try",
                            !.staging = IF remote.exists THEN remote
                                        ELSE FileOf(EmptyDb)]
  /\ UNCHANGED <<remote, tmp, FirstProcess>>

\* run_sweep lines 184-230 in the second process.
OtherDiscover ==
  /\ other.pc = "try"
  /\ LET target == normalize_path_for_query(OtherLocation, Mount)
         grouped == group_by_file_id(unprocessed_records(other.staging.db, target))
     IN other' =
          IF grouped = <<>> THEN [other EXCEPT !.pc = "sync_copy"]
          ELSE [other EXCEPT
                  !.pc = "loop",
                  !.staging = FileOf(record_processed_location(
                                       other.staging.db, OtherLocation, Len(grouped), FALSE)),
                  !.location_id = Len(other.staging.db.locs) + 1,
                  !.file_ids = grouped,
                  !.file_idx = 1]
  /\ UNCHANGED <<remote, tmp, FirstProcess>>

\* Lines 234-241
OtherNextFile ==
  /\ other.pc = "loop" /\ other.file_idx <= Len(other.file_ids)
  /\ other' = [other EXCEPT !.pc = "prompt",
                            !.presented = Append(@, other.file_ids[other.file_idx])]
  /\ UNCHANGED <<remote, tmp, FirstProcess>>

\* Lines 269-277, then the periodic check, which is not due.
OtherKeep ==
  /\ other.pc = "prompt"
  /\ other' = [other EXCEPT
                 !.pc = "loop",
                 !.staging = FileOf(record_processed_file(
                                      other.staging.db, other.file_ids[other.file_idx],
                                      other.location_id, "kept_all")),
                 !.file_idx = @ + 1]
  /\ UNCHANGED <<remote, tmp, FirstProcess>>

\* Lines 265-267, then the periodic check, which is not due.
OtherSkip ==
  /\ other.pc = "prompt"
  /\ other' = [other EXCEPT !.pc = "loop", !.file_idx = @ + 1]
  /\ UNCHANGED <<remote, tmp, FirstProcess>>

\* Line 372, then the finally block calls sync_to_storage.
OtherLoopEnds ==
  /\ other.pc = "loop" /\ other.file_idx > Len(other.file_ids)
  /\ other' = [other EXCEPT !.pc = "sync_copy"]
  /\ UNCHANGED <<remote, tmp, FirstProcess>>

\* sync_to_storage line 136: the copy to sweep_db.tmp, the one temporary
\* path both processes write.
OtherSyncCopy ==
  /\ other.pc = "sync_copy"
  /\ tmp' = other.staging
  /\ other' = [other EXCEPT !.pc = "sync_move"]
  /\ UNCHANGED <<remote, FirstProcess>>

\* A faulty variant of OtherSyncMove, for comparison: the rows the remote ledger has and
\* the moved file lacks are kept.
OtherSyncMoveMerges ==
  /\ other.pc = "sync_move"
  /\ tmp.exists
  /\ remote' = [tmp EXCEPT !.db.files =
                   @ \o SelectSeq(remote.db.files,
                                  LAMBDA row : ~is_file_processed(tmp.db, row.archives_app_file_id))]
  /\ tmp' = NoFile
  /\ other' = [other EXCEPT !.pc = "done", !.synced = tmp]
  /\ UNCHANGED FirstProcess

\* sync_to_storage line 137: sweep_db.tmp is renamed onto sweep_db.sqlite.
OtherSyncMove ==
  /\ other.pc = "sync_move"
  /\ tmp.exists
  /\ remote' = tmp
  /\ tmp' = NoFile
  /\ other' = [other EXCEPT !.pc = "done", !.synced = tmp]
  /\ UNCHANGED FirstProcess

\* Line 137 when the first process has moved sweep_db.tmp away: shutil.move
\* raises FileNotFoundError in the finally block.
OtherSyncMoveRaises ==
  /\ other.pc = "sync_move"
  /\ ~tmp.exists
  /\ other' = [other EXCEPT !.pc = "done", !.raised = TRUE]
  /\ UNCHANGED <<remote, tmp, FirstProcess>>

InitOverlap == Init /\ remote # PartialFile

NextOverlap ==
  \/ runs = 0 /\ StartRun(OtherLocation)
  \/ Discover
  \/ NextFile
  \/ CmdSkip
  \/ CmdKeep
  \/ Checkpoint
  \/ LoopEnds
  \/ Finally
  \/ SyncCopy
  \/ tmp.exists /\ SyncMoveRename
  \/ ~tmp.exists /\ SyncMoveRaises
  \/ OtherStart
  \/ OtherDiscover
  \/ OtherNextFile
  \/ OtherKeep
  \/ OtherSkip
  \/ OtherLoopEnds
  \/ OtherSyncCopy
  \/ OtherSyncMove
  \/ OtherSyncMoveRaises

SpecOverlap == InitOverlap /\ [][NextOverlap]_vars

\* What the constructor leaves in an empty directory.
Snapshot == IF remote.exists THEN remote ELSE FileOf(EmptyDb)

\* C29: nothing keeps a sweep from starting while another is under way;
\* each process gets a staging copy of its own, made from the remote
\* ledger as it is when the process starts, and writes only to that
\* copy; a sync puts the whole of the file at the temporary path in the
\* place of the remote ledger, and keeps nothing of the ledger it replaces.
C29_OverlapUnsafe ==
  /\ [](other.pc = "idle" => ENABLED OtherStart)
  /\ []((pc = "idle" /\ runs = 0) => ENABLED StartRun(OtherLocation))
  /\ [][(other.pc = "idle" /\ other'.pc # "idle") => other'.staging = Snapshot]_vars
  /\ [][(pc = "idle" /\ pc' # "idle") => staging' = Snapshot]_vars
  /\ [][staging' # staging => other'.staging = other.staging]_vars
  /\ [][other'.staging # other.staging => staging' = staging]_vars
  /\ [][remote' # remote => remote' = tmp]_vars

\* Both processes displayed a file; the second kept it and its sync put
\* the processed_files row at the remote path; the first skipped it and
\* synced last: the remote ledger has no row for the file.
C29_Witness ==
  /\ pc = "done" /\ ~raised /\ other.pc = "done" /\ ~other.raised
  /\ remote = staging
  /\ \E fid \in FileIds :
       /\ fid \in Range(presented) /\ fid \in Range(other.presented)
       /\ is_file_processed(other.synced.db, fid)
       /\ ~is_file_processed(remote.db, fid)

\* ------------------------------------- the remote ledger within one session
\* sync_to_storage has just returned to its caller.
SyncSucceeded ==
  Len(sync_log') = Len(sync_log) + 1 /\ Last(sync_log').ok

\* C30: from the construction of SweepDB to the end of the session the
\* rows of the remote ledger are rows of the staging copy; the remote
\* ledger has the contents the staging copy had when it was constructed
\* or at the last successful sync: it has the contents of the staging copy
\* when the constructor returns and it is changed only by a successful
\* sync, which keeps every row the remote ledger had and leaves it equal
\* to the staging copy.
C30_RemoteWithinStaging ==
  /\ [](initialised => RowsKept(remote.db, staging.db))
  /\ [][(pc = "idle" /\ initialised') => remote'.db = staging'.db]_vars
  /\ [][(initialised /\ remote' # remote) =>
          /\ SyncSucceeded
          /\ RowsKept(remote.db, remote'.db)]_vars
  /\ [][(initialised /\ SyncSucceeded) => remote' = staging']_vars

\* ------------------------------------- deletions that fail, and the next sweep
\* Up to MaxRuns sweeps of /mnt/A from one directory on one remote ledger:
\* the operator confirms a delete command for every file, the deletion
\* service accepts or refuses each request, the process can be killed
\* while it works through the selected numbers, and the final sync can fail.
SweptLocation == <<"mnt", "A">>

\* The process is killed inside the loop of lines 333-359: what the
\* ledger operations committed stays in ./sweep_db.sqlite, nothing is
\* synced, and the connections and locals go with the process.
Killed ==
  /\ pc \in {"enqueue", "record"}
  /\ pc' = "idle"
  /\ conn' = FALSE /\ archives_conn' = FALSE
  /\ initialised' = FALSE /\ raised' = FALSE
  /\ location_path' = <<>> /\ start_db' = EmptyDb /\ local_db' = NoFile
  /\ FreshLocals
  /\ UNCHANGED <<files, runs>>

NextRetry ==
  \/ runs < MaxRuns /\ StartRun(SweptLocation)
  \/ Exit
  \/ Killed
  \/ Discover
  \/ NextFile
  \/ LoopEnds
  \/ pc = "prompt" /\ \E numbers \in NumberLists : CmdDelete(numbers, <<"y", "e", "s">>)
  \/ \E success \in BOOLEAN : Enqueue(success)
  \/ RecordOutcome
  \/ Checkpoint
  \/ Finally
  \/ SyncCopy
  \/ SyncCopyRaises
  \/ SyncMoveRename

SpecRetry == Init /\ [][NextRetry]_vars

\* The file ids with a processed_files row that records a deletion.
DeletedIds(db) ==
  {db.files[i].archives_app_file_id :
     i \in {j \in 1..Len(db.files) :
              db.files[j].decision \in {"deleted_some", "deleted_all"}}}

\* C31: a confirmed delete commits the processed_files row before the
\* deletion service is called for the file; the row's decision is the one
\* the selection gives and no outcome of a call changes the row, so that
\* the file stays recorded as deleted_some or deleted_all when every call
\* failed; and the file is not presented again: the ledger the next
\* process works from has the row, whether the earlier process ended,
\* failed to sync or was killed between two calls, and no file with a row
\* in that ledger is presented.
C31_RowBeforeEnqueue ==
  /\ [][(pc = "prompt" /\ pc' = "enqueue") =>
          /\ Len(staging'.db.files) = Len(staging.db.files) + 1
          /\ Last(staging'.db.files).archives_app_file_id = file_id
          /\ enqueued' = enqueued
          /\ \A i \in 1..Len(enqueued) : enqueued[i].file_id # file_id]_vars
  /\ [](pc \in {"enqueue", "record"} =>
          staging.db.files[processed_file_id] =
            [archives_app_file_id |-> file_id,
             processed_location_id |-> location_id,
             decision |-> Decision(valid_numbers, Len(all_locations))])
  /\ [][(pc \in {"enqueue", "record"}) =>
          (staging'.db.files = staging.db.files)]_vars
  /\ [](initialised =>
          \A fid \in ProcessedIds(start_db) : fid \notin Range(presented))
  /\ [][(pc = "idle" /\ initialised' /\ Readable(staging)) =>
          \A fid \in DeletedIds(staging.db) : is_file_processed(staging'.db, fid)]_vars

\* ------------------------------------------------ references between rows
\* The full paths of the locations the catalog has for a file.
PathsOf(fid) ==
  {PathOf(fid, num) : num \in 1..Len(get_all_locations_for_file(fid))}

\* Every processed_files row of a ledger names a processed_locations row
\* of it, and every deleted_files row names a processed_files row of it
\* that records a deletion of a file that has the path.
References(db) ==
  /\ \A i \in 1..Len(db.files) :
       db.files[i].processed_location_id \in 1..Len(db.locs)
  /\ \A k \in 1..Len(db.deleted) :
       /\ db.deleted[k].processed_file_id \in 1..Len(db.files)
       /\ LET row == db.files[db.deleted[k].processed_file_id]
          IN /\ row.decision \in {"deleted_some", "deleted_all"}
             /\ db.deleted[k].path \in PathsOf(row.archives_app_file_id)

\* C32: in every state of the staging copy, of the remote ledger and of
\* the temporary copy, through every sequence of sweeps, every
\* processed_files row names an existing processed_locations row and every
\* deleted_files row names an existing processed_files row whose decision
\* is deleted_some or deleted_all and whose file has the deleted path among
\* its locations; the processed_files rows a run writes name the one
\* processed_locations row that run created, which carries the run's
\* location path.
C32_ReferentialIntegrity ==
  /\ \A f \in {staging, remote, tmp} : References(f.db)
  /\ (initialised /\ Len(staging.db.files) > Len(start_db.files)) =>
       /\ Len(staging.db.locs) = Len(start_db.locs) + 1
       /\ Last(staging.db.locs).location_path = location_path
       /\ \A i \in (Len(start_db.files) + 1)..Len(staging.db.files) :
            staging.db.files[i].processed_location_id = Len(staging.db.locs)

\* A sweep on a ledger that had rows has written a processed_files row and
\* a deleted_files row for it, under the second processed_locations row.
C32_Witness ==
  /\ initialised /\ pc = "checkpoint"
  /\ Len(start_db.locs) = 1 /\ Len(start_db.files) = 1
  /\ Len(staging.db.locs) = 2 /\ Len(staging.db.files) = 2
  /\ staging.db.deleted # <<>>
  /\ Last(staging.db.deleted).processed_file_id = 2

\* ------------------------------------------------ the end of a sweep
\* One sweep from its start to its end.  The operator may wait, open
\* locations, mistype and decline as often as they like; the sweep may be
\* started or not.  Every enqueue_delete_edit call succeeds here (a failed
\* call changes the row RecordOutcome writes and nothing else).
NextLive ==
  \/ runs = 0 /\ \E path \in LocationPaths : StartRun(path)
  \/ TranslateRaises \/ DiscoveryRaises \/ Discover
  \/ NextFile \/ FetchRaises \/ LoopEnds
  \/ Wait \/ CmdInvalid
  \/ pc = "prompt" /\ \E num \in Numbers, opened \in BOOLEAN : CmdOpen(num, opened)
  \/ pc = "prompt" /\ \E numbers \in NumberLists, confirm \in ConfirmAnswers :
                        CmdDeleteNoEffect(numbers, confirm)
  \/ CmdSkip \/ CmdKeep \/ CmdQuit
  \/ pc = "prompt" /\ \E numbers \in NumberLists : CmdDelete(numbers, <<"y", "e", "s">>)
  \/ Enqueue(TRUE)
  \/ RecordOutcome \/ Checkpoint \/ Except \/ Finally
  \/ SyncCopy \/ SyncCopyRaises \/ SyncMoveRename \/ SyncMoveRaises

\* Lines 252-330: at a prompt the operator enters a command that ends the
\* review of the file: skip, keep, quit or a confirmed delete of locations
\* the file has.
OperatorAdvances ==
  \/ CmdSkip \/ CmdKeep \/ CmdQuit
  \/ pc = "prompt" /\ \E numbers \in NumberLists : CmdDelete(numbers, <<"y", "e", "s">>)

\* A call run_sweep has made to the catalog, the application, the ledger
\* or the file system comes back, with its value or with an exception, and
\* run_sweep takes its next step.
CallReturns ==
  \/ TranslateRaises \/ DiscoveryRaises \/ Discover
  \/ NextFile \/ FetchRaises \/ LoopEnds
  \/ Enqueue(TRUE)
  \/ RecordOutcome \/ Checkpoint \/ Except \/ Finally
  \/ SyncCopy \/ SyncCopyRaises \/ SyncMoveRename \/ SyncMoveRaises

\* Prompt.ask blocks until the operator types, and every other step of
\* run_sweep is a call that is waited for: weak fairness of each.
SpecLive ==
  Init /\ [][NextLive]_vars /\ WF_vars(OperatorAdvances) /\ WF_vars(CallReturns)

\* The processed_files rows this sweep wrote for a file.
RunRows(fid) ==
  {i \in (Len(start_db.files) + 1)..Len(staging.db.files) :
     staging.db.files[i].archives_app_file_id = fid}

Decided(fid, d) ==
  RunRows(fid) # {} /\ \A i \in RunRows(fid) : staging.db.files[i].decision = d

Kept(fid) == Decided(fid, "kept_all")
DeletedSome(fid) == Decided(fid, "deleted_some")
DeletedAll(fid) == Decided(fid, "deleted_all")

\* Line 234: the place of a file in the review.
Position(fid) == CHOOSE i \in 1..Len(file_ids) : file_ids[i] = fid

\* A checkpoint sync raised: the review of the file at file_idx had ended.
PeriodicFailed ==
  \E k \in 1..Len(sync_log) : sync_log[k] = [caller |-> "periodic", ok |-> FALSE]

\* The review of the file was ended by a command.
Passed(fid) ==
  /\ fid \in Range(presented)
  /\ \/ Position(fid) < file_idx
     \/ Position(fid) = file_idx /\ PeriodicFailed

Skipped(fid) == RunRows(fid) = {} /\ Passed(fid)
Unreviewed(fid) == RunRows(fid) = {} /\ ~Passed(fid)

\* The review loop was left by quit or by an exception (lines 259-263, 374-383).
Aborted ==
  \/ \E k \in 1..Len(sync_log) : sync_log[k].caller = "quit"
  \/ \E k \in (Len(start_db.errors) + 1)..Len(staging.db.errors) :
       staging.db.errors[k].operation = "sweep"

OutcomesOf(fid) ==
  {o \in {"Kept", "DeletedSome", "DeletedAll", "Skipped", "Unreviewed"} :
     \/ o = "Kept" /\ Kept(fid)
     \/ o = "DeletedSome" /\ DeletedSome(fid)
     \/ o = "DeletedAll" /\ DeletedAll(fid)
     \/ o = "Skipped" /\ Skipped(fid)
     \/ o = "Unreviewed" /\ Unreviewed(fid)}

\* C33: when the operator ends the review of every presented file with
\* skip, keep, quit or a confirmed delete and every call comes back, a
\* started sweep reaches its end; and at the end every file id selected
\* for review has exactly one outcome: kept, deleted in part, deleted
\* entirely (one processed_files row of this sweep, for a file that was
\* presented), skipped (presented, its review ended, no row), or
\* unreviewed, the last only when quit or an exception ended the loop.
C33_TerminatesWithOutcome ==
  /\ (pc = "try") ~> (pc = "done")
  /\ []((pc = "done" /\ initialised) =>
        \A fid \in Range(file_ids) :
          /\ Cardinality(OutcomesOf(fid)) = 1
          /\ Cardinality(RunRows(fid)) <= 1
          /\ RunRows(fid) # {} => fid \in Range(presented)
          /\ Unreviewed(fid) => Aborted)
  /\ []((pc = "done" /\ initialised) =>
        \A i \in (Len(start_db.files) + 1)..Len(staging.db.files) :
          staging.db.files[i].archives_app_file_id \in Range(file_ids))

\* A sweep of two files has ended: the first was deleted in part, the
\* second skipped, and nothing cut the review short.
C33_Witness ==
  /\ pc = "done" /\ initialised /\ ~Aborted
  /\ Len(file_ids) = 2
  /\ DeletedSome(file_ids[1])
  /\ Skipped(file_ids[2])

====
